---- MODULE Spec2Model ----
(***************************************************************************)
(* A model of the financial report service: the /process endpoint of       *)
(* app.py and the report pipeline of financial_report_generator.py         *)
(* (extraction, derived metrics, status classification, chart submission,  *)
(* HTML assembly, PDF export).                                             *)
(*                                                                         *)
(* Numbers.  The program computes with Python ints and binary64 floats.    *)
(* The model computes with exact rationals <<n, d>> (d > 0, lowest terms), *)
(* i.e. it idealises float rounding away; every comparison the program     *)
(* makes is made here on the exact value.                                  *)
(***************************************************************************)
EXTENDS Integers, Sequences, FiniteSets, TLC

None == "None"

\* ------------------------------------------------------------ rationals

Abs(x) == IF x < 0 THEN -x ELSE x

RECURSIVE GCD(_, _)
GCD(a, b) == IF b = 0 THEN Abs(a) ELSE GCD(b, a % b)

Rat(n, d) ==
    LET s == IF d < 0 THEN -1 ELSE 1
        g == GCD(Abs(n), Abs(d))
    IN  IF n = 0 THEN <<0, 1>> ELSE <<(s * n) \div g, (s * d) \div g>>

R(n) == <<n, 1>>

LCM(a, b) == (a \div GCD(a, b)) * b

RatAdd(x, y) ==
    LET l == LCM(x[2], y[2])
    IN  Rat(x[1] * (l \div x[2]) + y[1] * (l \div y[2]), l)

RatNeg(x) == <<-x[1], x[2]>>

RatSub(x, y) == RatAdd(x, RatNeg(y))

RatMul(x, y) ==
    LET g1 == GCD(Abs(x[1]), y[2])
        g2 == GCD(Abs(y[1]), x[2])
    IN  IF x[1] = 0 \/ y[1] = 0 THEN <<0, 1>>
        ELSE Rat((x[1] \div g1) * (y[1] \div g2), (x[2] \div g2) * (y[2] \div g1))

\* x / y for y # 0
RatDiv(x, y) == RatMul(x, IF y[1] < 0 THEN <<-y[2], -y[1]>> ELSE <<y[2], y[1]>>)

RatLT(x, y) ==
    LET l == LCM(x[2], y[2])
    IN  x[1] * (l \div x[2]) < y[1] * (l \div y[2])

RatLE(x, y) == ~RatLT(y, x)
RatGT(x, y) == RatLT(y, x)
RatGE(x, y) == ~RatLT(x, y)

RatAbs(x) == <<Abs(x[1]), x[2]>>

RECURSIVE RatSum(_)
RatSum(s) == IF s = <<>> THEN R(0) ELSE RatAdd(RatSum(SubSeq(s, 1, Len(s) - 1)), s[Len(s)])

\* ------------------------------------------------------------ sequences and text

Range(s) == {s[i] : i \in 1..Len(s)}

\* Python s[-n:]
LastN(s, n) == IF Len(s) <= n THEN s ELSE SubSeq(s, Len(s) - n + 1, Len(s))

\* str.lower() on one character (the letters the model's texts use)
LowerChar(c) ==
    CASE c = "X" -> "x"
      [] c = "L" -> "l"
      [] c = "S" -> "s"
      [] c = "P" -> "p"
      [] c = "C" -> "c"
      [] c = "B" -> "b"
      [] c = "N" -> "n"
      [] c = "A" -> "a"
      [] c = "I" -> "i"
      [] OTHER -> c

Lower(s) == [i \in 1..Len(s) |-> LowerChar(s[i])]

\* Python `sub in s`
Contains(s, sub) ==
    \E i \in 1..(Len(s) + 1) :
        /\ i + Len(sub) - 1 <= Len(s)
        /\ SubSeq(s, i, i + Len(sub) - 1) = sub

\* index of the last "." of s, 0 if there is none
LastDot(s) ==
    IF \E i \in 1..Len(s) : s[i] = "."
    THEN CHOOSE i \in 1..Len(s) : s[i] = "." /\ \A j \in (i + 1)..Len(s) : s[j] # "."
    ELSE 0


\* The characters of the texts the model uses (role names, file names, keywords).
Chars(s) ==
    CASE s = "balance_sheet" -> <<"b", "a", "l", "a", "n", "c", "e", "_", "s", "h", "e", "e", "t">>
      [] s = "cash_flow" -> <<"c", "a", "s", "h", "_", "f", "l", "o", "w">>
      [] s = "profit_loss" -> <<"p", "r", "o", "f", "i", "t", "_", "l", "o", "s", "s">>
      [] s = "cashflow" -> <<"c", "a", "s", "h", "f", "l", "o", "w">>
      [] s = "a.xlsx" -> <<"a", ".", "x", "l", "s", "x">>
      [] s = "b.XLS" -> <<"b", ".", "X", "L", "S">>
      [] s = "a.csv" -> <<"a", ".", "c", "s", "v">>
      [] s = "xlsx" -> <<"x", "l", "s", "x">>
      [] s = "" -> <<>>
      [] s = "profit_loss.xlsx" -> <<"p", "r", "o", "f", "i", "t", "_", "l", "o", "s", "s", ".", "x", "l", "s", "x">>
      [] s = "balance_sheet.xlsx" -> <<"b", "a", "l", "a", "n", "c", "e", "_", "s", "h", "e", "e", "t", ".", "x", "l", "s", "x">>
      [] s = "cashflow.xlsx" -> <<"c", "a", "s", "h", "f", "l", "o", "w", ".", "x", "l", "s", "x">>
      [] s = "profit" -> <<"p", "r", "o", "f", "i", "t">>
      [] s = "loss" -> <<"l", "o", "s", "s">>
      [] s = "p&l" -> <<"p", "&", "l">>
      [] s = "balance" -> <<"b", "a", "l", "a", "n", "c", "e">>
      [] s = "cash" -> <<"c", "a", "s", "h">>
      [] s = "xls" -> <<"x", "l", "s">>
      [] s = "Balance_Cash" -> <<"B", "a", "l", "a", "n", "c", "e", "_", "C", "a", "s", "h">>
      [] s = "Loss_Balance" -> <<"L", "o", "s", "s", "_", "B", "a", "l", "a", "n", "c", "e">>

\* ------------------------------------------------------------ app.py: configuration

required_files == <<"balance_sheet", "cash_flow", "profit_loss">>

ALLOWED_EXTENSIONS == {"xlsx", "xls"}

\* what a request may carry under one file key: no such part, or a part with a filename
Absent == "<absent>"
Filenames == {"", "a.xlsx", "b.XLS", "a.csv", "xlsx"}

\* allowed_file taking a name without a dot as its own extension
allowed_file_no_dot(filename) ==
    LET cs == Chars(filename)
        d == LastDot(cs)
    IN  \E e \in ALLOWED_EXTENSIONS : Lower(SubSeq(cs, d + 1, Len(cs))) = Chars(e)

allowed_file(filename) ==
    LET cs == Chars(filename)
        d == LastDot(cs)
    IN  /\ d # 0
        /\ \E e \in ALLOWED_EXTENSIONS : Lower(SubSeq(cs, d + 1, Len(cs))) = Chars(e)

\* werkzeug's secure_filename leaves these plain ASCII names as they are
secure_filename(filename) == filename

\* os.path.join(UPLOAD_FOLDER, f"{file_key}_{filename}")
UploadPath(file_key, filename) == <<file_key, secure_filename(filename)>>

\* the files main() names, in the order of its dict literal
MainFilePaths ==
    << <<"profit_loss", <<"", "profit_loss.xlsx">> >>,
       <<"balance_sheet", <<"", "balance_sheet.xlsx">> >>,
       <<"cashflow", <<"", "cashflow.xlsx">> >> >>

OutputFile == <<"", "enhanced_financial_report.html">>

\* ------------------------------------------------------------ generator: constants

benchmarks ==
    [income_target |-> R(209475), cogs_target |-> R(20), marketing_target |-> R(16),
     team_target |-> R(25), overhead_target |-> R(18), profit_target |-> R(21),
     cash_target |-> R(265634)]

SampleMonths ==
    <<"March 2024", "April 2024", "May 2024", "June 2024", "July 2024", "August 2024",
      "September 2024", "October 2024", "November 2024", "December 2024",
      "January 2025", "February 2025">>

monthly_revenue ==
    <<200000, 210000, 195000, 220000, 215000, 225000,
      230000, 240000, 235000, 245000, 225000, 232557>>

\* the cost rates 0.115, 0.157, 0.339, 0.234
COGS_RATE == Rat(115, 1000)
MARKETING_RATE == Rat(157, 1000)
TEAM_RATE == Rat(339, 1000)
OVERHEAD_RATE == Rat(234, 1000)

cash_positions ==
    <<-120000, -115000, -110000, -105000, -100000, -95000,
      -90000, -85000, -80000, -75000, -78000, -73790>>

SampleAccounts ==
    << [account |-> "1101 Chase Primary (1623)", values |-> <<32173>>],
       [account |-> "1102 Chase Collections (9369)", values |-> <<10500>>],
       [account |-> "1103 Chase Profit (1363)", values |-> <<105007>>] >>


\* ------------------------------------------------------------ FinancialMetrics

\* An optional value (a dict key that may be missing, a value that may be None)
\* is a sequence of length 0 or 1.
Missing == <<>>
Some(x) == <<x>>
IsSome(o) == Len(o) = 1
Get(o) == o[1]

\* Percentage without the factor 100
Percentage_fraction(part, revenue) ==
    IF RatGT(revenue, R(0)) THEN RatDiv(part, revenue) ELSE R(0)

Percentage(part, revenue) ==
    IF RatGT(revenue, R(0)) THEN RatMul(RatDiv(part, revenue), R(100)) ELSE R(0)

profit_margin(m) == Percentage(m.profit, m.revenue)
cogs_percentage(m) == Percentage(m.cogs, m.revenue)
marketing_percentage(m) == Percentage(m.marketing, m.revenue)
team_percentage(m) == Percentage(m.team, m.revenue)
overhead_percentage(m) == Percentage(m.overheads, m.revenue)

\* ------------------------------------------------------------ status classifier

\* A status label is the pair of its two words: the symbol and the tier.
Positive == <<"check", "Positive">>
Neutral == <<"dash", "Neutral">>
Caution == <<"sign", "Caution">>
Warning == <<"siren", "Warning">>

StatusRatio(actual, target) ==
    IF RatGT(target, R(0)) THEN RatDiv(actual, target) ELSE R(0)

\* HigherIsBetter with the top band's edge excluded
HigherIsBetter_strict(ratio) ==
    IF RatGT(ratio, Rat(11, 10)) THEN Positive
    ELSE IF RatGE(ratio, Rat(10, 10)) THEN Neutral
    ELSE IF RatGE(ratio, Rat(85, 100)) THEN Caution
    ELSE Warning

HigherIsBetter(ratio) ==
    IF RatGE(ratio, Rat(11, 10)) THEN Positive
    ELSE IF RatGE(ratio, Rat(10, 10)) THEN Neutral
    ELSE IF RatGE(ratio, Rat(85, 100)) THEN Caution
    ELSE Warning

\* LowerIsBetter with the Caution band's edge excluded
LowerIsBetter_strict(ratio) ==
    IF RatLE(ratio, Rat(98, 100)) THEN Positive
    ELSE IF RatLE(ratio, Rat(105, 100)) THEN Neutral
    ELSE IF RatLT(ratio, Rat(130, 100)) THEN Caution
    ELSE Warning

LowerIsBetter(ratio) ==
    IF RatLE(ratio, Rat(98, 100)) THEN Positive
    ELSE IF RatLE(ratio, Rat(105, 100)) THEN Neutral
    ELSE IF RatLE(ratio, Rat(130, 100)) THEN Caution
    ELSE Warning

\* generate_status_indicator with a third branch: only 'expenses' is graded as a cost,
\* any other category falls through without a tier
generate_status_indicator_partial(actual, target, category) ==
    IF category \in {"income", "profit"}
    THEN HigherIsBetter(StatusRatio(actual, target))
    ELSE IF category = "expenses"
    THEN LowerIsBetter(StatusRatio(actual, target))
    ELSE <<"", None>>

generate_status_indicator(actual, target, category) ==
    IF category \in {"income", "profit"}
    THEN HigherIsBetter(StatusRatio(actual, target))
    ELSE LowerIsBetter(StatusRatio(actual, target))

\* status.split()[1].lower()
StatusClass(status) ==
    CASE status[2] = "Positive" -> "positive"
      [] status[2] = "Neutral" -> "neutral"
      [] status[2] = "Caution" -> "caution"
      [] status[2] = "Warning" -> "warning"

\* ------------------------------------------------------------ clean_numeric_value

\* A Python float: finite (val is its value), an infinity, or NaN.
Finite(r) == [cls |-> "finite", val |-> r]
PosInf == [cls |-> "inf", val |-> R(0)]
NegInf == [cls |-> "-inf", val |-> R(0)]
NaN == [cls |-> "nan", val |-> R(0)]
Zero == Finite(R(0))

\* unary minus on a float
FloatNeg(x) ==
    CASE x.cls = "finite" -> Finite(RatNeg(x.val))
      [] x.cls = "inf" -> NegInf
      [] x.cls = "-inf" -> PosInf
      [] x.cls = "nan" -> NaN

\* A cell value: None, a float, an int, or a str (text is its characters).
NoneValue == [type |-> "NoneType", num |-> Zero, text |-> <<>>]
FloatValue(x) == [type |-> "float", num |-> x, text |-> <<>>]
IntValue(n) == [type |-> "int", num |-> Finite(R(n)), text |-> <<>>]
StrValue(cs) == [type |-> "str", num |-> Zero, text |-> cs]

Whitespace == {" "}

\* str.strip()
RECURSIVE LStrip(_)
LStrip(cs) == IF cs # <<>> /\ cs[1] \in Whitespace THEN LStrip(Tail(cs)) ELSE cs

RECURSIVE RStrip(_)
RStrip(cs) ==
    IF cs # <<>> /\ cs[Len(cs)] \in Whitespace THEN RStrip(SubSeq(cs, 1, Len(cs) - 1)) ELSE cs

Strip(cs) == RStrip(LStrip(cs))

\* ['', ' ', 'nan', 'none', '#n/a', 'n/a']
BlankMarkers ==
    {<<>>, <<" ">>, <<"n", "a", "n">>, <<"n", "o", "n", "e">>, <<"#", "n", "/", "a">>,
     <<"n", "/", "a">>}

\* re.sub(r'[$,\s%()]', '', str_val)
RemovedChars == {"$", ",", "%", "(", ")"} \cup Whitespace
RemoveSymbols(cs) == SelectSeq(cs, LAMBDA c : c \notin RemovedChars)

DigitChars == {"0", "1", "2", "3", "4", "5", "6", "7", "8", "9"}

DigitValue(c) ==
    CASE c = "0" -> 0 [] c = "1" -> 1 [] c = "2" -> 2 [] c = "3" -> 3 [] c = "4" -> 4
      [] c = "5" -> 5 [] c = "6" -> 6 [] c = "7" -> 7 [] c = "8" -> 8 [] c = "9" -> 9

RECURSIVE DigitsValue(_)
DigitsValue(ds) ==
    IF ds = <<>> THEN 0
    ELSE 10 * DigitsValue(SubSeq(ds, 1, Len(ds) - 1)) + DigitValue(ds[Len(ds)])

RECURSIVE Pow10(_)
Pow10(k) == IF k = 0 THEN 1 ELSE 10 * Pow10(k - 1)

\* float() on text without a sign: inf, infinity and nan in any case, or decimal digits
\* with at most one point and at least one digit (exponents and digit-group underscores
\* are not among the model's texts)
ParseUnsigned(cs) ==
    LET dots == {i \in 1..Len(cs) : cs[i] = "."}
        digits == SelectSeq(cs, LAMBDA c : c \in DigitChars)
        point == CHOOSE i \in dots : TRUE
    IN  IF Lower(cs) \in {<<"i", "n", "f">>, <<"i", "n", "f", "i", "n", "i", "t", "y">>}
        THEN [ok |-> TRUE, value |-> PosInf]
        ELSE IF Lower(cs) = <<"n", "a", "n">>
        THEN [ok |-> TRUE, value |-> NaN]
        ELSE IF /\ \A i \in 1..Len(cs) : cs[i] \in DigitChars \cup {"."}
                /\ Cardinality(dots) <= 1
                /\ digits # <<>>
        THEN [ok |-> TRUE,
              value |-> Finite(Rat(DigitsValue(digits),
                                   IF dots = {} THEN 1 ELSE Pow10(Len(cs) - point)))]
        ELSE [ok |-> FALSE, value |-> Zero]

\* float(cleaned): ok is false where Python raises ValueError
ParseFloat(cs) ==
    IF cs # <<>> /\ cs[1] = "-"
    THEN LET p == ParseUnsigned(Tail(cs)) IN [ok |-> p.ok, value |-> FloatNeg(p.value)]
    ELSE IF cs # <<>> /\ cs[1] = "+" THEN ParseUnsigned(Tail(cs))
    ELSE ParseUnsigned(cs)

\* pd.isna(value) or value is None or value == ''
IsBlankValue(value) ==
    \/ value.type = "NoneType"
    \/ value.type = "float" /\ value.num.cls = "nan"
    \/ value.type = "str" /\ value.text = <<>>

\* the text handed to float(): symbols removed, one leading minus taken off
Cleaned(str_val) ==
    LET cleaned == RemoveSymbols(str_val)
    IN  IF cleaned # <<>> /\ cleaned[1] = "-" THEN Tail(cleaned) ELSE cleaned

\* is_negative: both parentheses somewhere in the text, or a leading minus after cleaning
IsNegative(str_val) ==
    \/ "(" \in Range(str_val) /\ ")" \in Range(str_val)
    \/ RemoveSymbols(str_val) # <<>> /\ RemoveSymbols(str_val)[1] = "-"

\* clean_numeric_value without the try/except around float()
clean_numeric_value_unguarded(value) ==
    IF IsBlankValue(value) THEN [raised |-> None, value |-> Zero]
    ELSE IF value.type \in {"int", "float"} THEN [raised |-> None, value |-> value.num]
    ELSE
        LET str_val == Strip(value.text)
            parsed == ParseFloat(Cleaned(str_val))
        IN  IF str_val = <<>> \/ Lower(str_val) \in BlankMarkers
            THEN [raised |-> None, value |-> Zero]
            ELSE IF ~parsed.ok THEN [raised |-> "ValueError", value |-> Zero]
            ELSE [raised |-> None,
                  value |-> IF IsNegative(str_val) THEN FloatNeg(parsed.value)
                            ELSE parsed.value]

\* clean_numeric_value: the exception it raises (None: none) and the float it returns
clean_numeric_value(value) ==
    IF IsBlankValue(value) THEN [raised |-> None, value |-> Zero]
    ELSE IF value.type \in {"int", "float"} THEN [raised |-> None, value |-> value.num]
    ELSE
        LET str_val == Strip(value.text)
            parsed == ParseFloat(Cleaned(str_val))
        IN  IF str_val = <<>> \/ Lower(str_val) \in BlankMarkers
            THEN [raised |-> None, value |-> Zero]
            ELSE IF ~parsed.ok THEN [raised |-> None, value |-> Zero]
            ELSE [raised |-> None,
                  value |-> IF IsNegative(str_val) THEN FloatNeg(parsed.value)
                            ELSE parsed.value]

\* ------------------------------------------------------------ extraction

NewExtractedData ==
    [company_name |-> <<"Financial Report">>,
     period |-> "now",
     latest_month |-> "now",
     previous_month |-> "now - 30 days",
     months |-> <<>>,
     monthly_data |-> <<>>,
     balance_sheet |-> Missing,
     cash_flow |-> Missing,
     latest_metrics |-> Missing,
     previous_metrics |-> Missing,
     ytd_metrics |-> Missing]

\* d[key] = value on an insertion-ordered dict held as a sequence of entries
DictSet(d, key, value) ==
    IF \E i \in 1..Len(d) : d[i].key = key
    THEN [i \in 1..Len(d) |-> IF d[i].key = key THEN [key |-> key, value |-> value] ELSE d[i]]
    ELSE Append(d, [key |-> key, value |-> value])

MonthKey(i) == <<"month", i - 1>>

MonthRecord(i) ==
    LET r == R(monthly_revenue[i])
        c == RatMul(r, COGS_RATE)
        m == RatMul(r, MARKETING_RATE)
        t == RatMul(r, TEAM_RATE)
        o == RatMul(r, OVERHEAD_RATE)
    IN  [revenue |-> r, cogs |-> c, marketing |-> m, team |-> t, overhead |-> o,
         profit |-> RatSub(RatSub(RatSub(RatSub(r, c), m), t), o)]

RECURSIVE StoreMonths(_, _)
StoreMonths(d, n) ==
    IF n = 0 THEN d ELSE DictSet(StoreMonths(d, n - 1), MonthKey(n), MonthRecord(n))

\* _extract_pnl_data_enhanced adding its labels to those already in the dataset
_extract_pnl_data_enhanced_append(data) ==
    [data EXCEPT !.months = data.months \o SampleMonths,
                 !.latest_month = SampleMonths[Len(SampleMonths)],
                 !.previous_month = SampleMonths[Len(SampleMonths) - 1],
                 !.monthly_data = StoreMonths(data.monthly_data, Len(SampleMonths))]

_extract_pnl_data_enhanced(data) ==
    [data EXCEPT !.months = SampleMonths,
                 !.latest_month = SampleMonths[Len(SampleMonths)],
                 !.previous_month = SampleMonths[Len(SampleMonths) - 1],
                 !.monthly_data = StoreMonths(data.monthly_data, Len(SampleMonths))]

_extract_balance_sheet_data_enhanced(data) ==
    [data EXCEPT !.balance_sheet = Some(cash_positions)]

_extract_cashflow_data_enhanced(data) ==
    [data EXCEPT !.cash_flow = Some(SampleAccounts)]

HasWord(file_type, word) == Contains(Lower(Chars(file_type)), Chars(word))

\* Route looking for 'cash' before 'balance'
Route_cash_first(file_type) ==
    IF HasWord(file_type, "profit") \/ HasWord(file_type, "loss") \/ HasWord(file_type, "p&l")
    THEN "pnl"
    ELSE IF HasWord(file_type, "cash") THEN "cash"
    ELSE IF HasWord(file_type, "balance") THEN "balance"
    ELSE "none"

\* the extractor a role name is routed to
Route(file_type) ==
    IF HasWord(file_type, "profit") \/ HasWord(file_type, "loss") \/ HasWord(file_type, "p&l")
    THEN "pnl"
    ELSE IF HasWord(file_type, "balance") THEN "balance"
    ELSE IF HasWord(file_type, "cash") THEN "cash"
    ELSE "none"

RunExtractor(file_type, data) ==
    CASE Route(file_type) = "pnl" -> _extract_pnl_data_enhanced(data)
      [] Route(file_type) = "balance" -> _extract_balance_sheet_data_enhanced(data)
      [] Route(file_type) = "cash" -> _extract_cashflow_data_enhanced(data)
      [] OTHER -> data

\* The outcomes of reading one workbook that exists: read_excel or the scan of its
\* first rows raises; it is read and a company name is found in it; it is read and
\* no company name is found.
ReadOutcomes == {"raises", "named", "unnamed"}

CompanyNameOf(file_type) == <<"company of", file_type>>

\* ProcessOneFile without the per-file try/except: a failing read loses the dataset
ProcessOneFile_abort(data, file_type, exists, outcome) ==
    IF ~exists THEN data
    ELSE IF outcome = "raises" THEN NewExtractedData
    ELSE RunExtractor(file_type,
             IF outcome = "named"
             THEN [data EXCEPT !.company_name = CompanyNameOf(file_type)]
             ELSE data)

\* one iteration of the loop over file_paths.items()
ProcessOneFile(data, file_type, exists, outcome) ==
    IF ~exists THEN data
    ELSE IF outcome = "raises" THEN data
    ELSE RunExtractor(file_type,
             IF outcome = "named"
             THEN [data EXCEPT !.company_name = CompanyNameOf(file_type)]
             ELSE data)

\* ------------------------------------------------------------ binary64
\* The figures of the P&L extractor as the program holds them: binary64 floats, every
\* operation rounded to 53 significant bits, ties to even.  A non-negative float is held
\* as the whole number of units of 2^-FractionBits it is worth (all floats of the
\* extractor are such multiples), written in limbs of LimbBits bits, lowest first,
\* without leading zero limbs.

MantissaBits == 53
FractionBits == 56
LimbBits == 15
Base == 2 ^ LimbBits

RECURSIVE Limbs(_)
Limbs(n) == IF n = 0 THEN <<>> ELSE <<n % Base>> \o Limbs(n \div Base)

RECURSIVE Trim(_)
Trim(a) == IF a # <<>> /\ a[Len(a)] = 0 THEN Trim(SubSeq(a, 1, Len(a) - 1)) ELSE a

Rest(a) == IF a = <<>> THEN <<>> ELSE Tail(a)
Low(a) == IF a = <<>> THEN 0 ELSE a[1]

RECURSIVE AddCarry(_, _, _)
AddCarry(a, b, c) ==
    IF a = <<>> /\ b = <<>> THEN (IF c = 0 THEN <<>> ELSE <<c>>)
    ELSE <<(Low(a) + Low(b) + c) % Base>>
           \o AddCarry(Rest(a), Rest(b), (Low(a) + Low(b) + c) \div Base)

BigAdd(a, b) == AddCarry(a, b, 0)

\* a - b for a >= b
RECURSIVE SubBorrow(_, _, _)
SubBorrow(a, b, c) ==
    IF a = <<>> THEN <<>>
    ELSE <<(Low(a) - Low(b) - c) % Base>>
           \o SubBorrow(Rest(a), Rest(b), IF Low(a) - Low(b) - c < 0 THEN 1 ELSE 0)

BigSub(a, b) == Trim(SubBorrow(a, b, 0))

\* a times the limb m, plus c
RECURSIVE MulLimb(_, _, _)
MulLimb(a, m, c) ==
    IF a = <<>> THEN (IF c = 0 THEN <<>> ELSE <<c>>)
    ELSE <<(a[1] * m + c) % Base>> \o MulLimb(Tail(a), m, (a[1] * m + c) \div Base)

RECURSIVE BigMul(_, _)
BigMul(a, b) ==
    IF a = <<>> \/ b = <<>> THEN <<>>
    ELSE Trim(BigAdd(MulLimb(a, b[1], 0), <<0>> \o BigMul(a, Tail(b))))

\* long division of a by the whole number d <= Base, from the highest limb a[i] down:
\* q and r are the quotient and the remainder of the limbs above a[i]
RECURSIVE DivFrom(_, _, _, _, _)
DivFrom(a, i, q, r, d) ==
    IF i = 0 THEN [q |-> q, r |-> r]
    ELSE DivFrom(a, i - 1, <<(r * Base + a[i]) \div d>> \o q, (r * Base + a[i]) % d, d)

BigDivMod(a, d) == DivFrom(a, Len(a), <<>>, 0, d)

Zeros(k) == [i \in 1..k |-> 0]

\* a * 2^k
BigShl(a, k) ==
    IF a = <<>> THEN <<>>
    ELSE Zeros(k \div LimbBits) \o MulLimb(a, 2 ^ (k % LimbBits), 0)

\* a \div 2^k, and sticky: whether a one was among the k bits shifted out
BigShr(a, k) ==
    LET whole == IF k \div LimbBits < Len(a) THEN k \div LimbBits ELSE Len(a)
        dm == BigDivMod(SubSeq(a, whole + 1, Len(a)), 2 ^ (k % LimbBits))
    IN  [q |-> Trim(dm.q), sticky |-> dm.r # 0 \/ \E i \in 1..whole : a[i] # 0]

RECURSIVE SmallBitLength(_)
SmallBitLength(n) == IF n = 0 THEN 0 ELSE 1 + SmallBitLength(n \div 2)

BitLength(a) ==
    IF a = <<>> THEN 0 ELSE LimbBits * (Len(a) - 1) + SmallBitLength(a[Len(a)])

\* a, with sticky telling that something below its lowest bit was cut off, rounded to
\* MantissaBits significant bits, ties to even
RoundDouble(a, sticky) ==
    LET drop == BitLength(a) - MantissaBits
        upper == BigShr(a, drop - 1)
        kept == BigShr(upper.q, 1).q
        half == upper.q[1] % 2 = 1
        up == half /\ (sticky \/ upper.sticky \/ kept[1] % 2 = 1)
    IN  IF drop <= 0 THEN a
        ELSE BigShl(IF up THEN BigAdd(kept, <<1>>) ELSE kept, drop)

\* the float a decimal literal n/d denotes (n/d between 2^-8 and 1)
DoubleOf(n, d) ==
    LET extra == 8
        qr == BigDivMod(BigShl(Limbs(n), FractionBits + extra), d)
    IN  BigShr(RoundDouble(Trim(qr.q), qr.r # 0), extra).q

\* float(n) for a whole number n >= 0
DoubleOfInt(n) == BigShl(Limbs(n), FractionBits)

\* x * y, x + y and x - y (x >= y) on floats
FloatMul(x, y) ==
    LET shifted == BigShr(BigMul(x, y), FractionBits)
    IN  RoundDouble(shifted.q, shifted.sticky)

FloatAdd(x, y) == RoundDouble(BigAdd(x, y), FALSE)
FloatSub(x, y) == RoundDouble(BigSub(x, y), FALSE)

\* the record _extract_pnl_data_enhanced stores for a month of the given revenue, and the
\* expenses _calculate_derived_metrics_enhanced adds up from it, in binary64
DoubleMonthRecord(revenue) ==
    LET r == DoubleOfInt(revenue)
        c == FloatMul(r, DoubleOf(115, 1000))
        m == FloatMul(r, DoubleOf(157, 1000))
        t == FloatMul(r, DoubleOf(339, 1000))
        o == FloatMul(r, DoubleOf(234, 1000))
    IN  [revenue |-> r, cogs |-> c, marketing |-> m, team |-> t, overhead |-> o,
         profit |-> FloatSub(FloatSub(FloatSub(FloatSub(r, c), m), t), o)]

DoubleExpenses(rec) == FloatAdd(FloatAdd(FloatAdd(rec.cogs, rec.marketing), rec.team), rec.overhead)

\* ------------------------------------------------------------ derived metrics

Expenses(rec) == RatAdd(RatAdd(RatAdd(rec.cogs, rec.marketing), rec.team), rec.overhead)

\* LatestCash taking the first entry of the series
LatestCash_first(balance_sheet) ==
    IF IsSome(balance_sheet) /\ Get(balance_sheet) # <<>>
    THEN R(Get(balance_sheet)[1])
    ELSE R(0)

\* data['balance_sheet'].get('cash', [0])[-1] if data['balance_sheet'].get('cash') else 0
LatestCash(balance_sheet) ==
    IF IsSome(balance_sheet) /\ Get(balance_sheet) # <<>>
    THEN R(Get(balance_sheet)[Len(Get(balance_sheet))])
    ELSE R(0)

\* data['balance_sheet'].get('cash', [0])[-2] if len(data['balance_sheet'].get('cash', [])) > 1 else 0
PreviousCash(balance_sheet) ==
    IF IsSome(balance_sheet) /\ Len(Get(balance_sheet)) > 1
    THEN R(Get(balance_sheet)[Len(Get(balance_sheet)) - 1])
    ELSE R(0)

MakeMetrics(rec, cash) ==
    [revenue |-> rec.revenue, expenses |-> Expenses(rec), profit |-> rec.profit,
     cash_position |-> cash, cogs |-> rec.cogs, marketing |-> rec.marketing,
     team |-> rec.team, overheads |-> rec.overhead]

Column(md, f) == [i \in 1..Len(md) |-> md[i].value[f]]

\* YtdMetrics with the overhead left out of the expenses
YtdMetrics_no_overhead(md) ==
    [revenue |-> RatSum(Column(md, "revenue")),
     expenses |-> RatSum([i \in 1..Len(md) |->
                            RatAdd(RatAdd(md[i].value.cogs, md[i].value.marketing),
                                   md[i].value.team)]),
     profit |-> RatSum(Column(md, "profit")),
     cogs |-> RatSum(Column(md, "cogs")),
     marketing |-> RatSum(Column(md, "marketing")),
     team |-> RatSum(Column(md, "team")),
     overhead |-> RatSum(Column(md, "overhead"))]

YtdMetrics(md) ==
    [revenue |-> RatSum(Column(md, "revenue")),
     expenses |-> RatSum([i \in 1..Len(md) |-> Expenses(md[i].value)]),
     profit |-> RatSum(Column(md, "profit")),
     cogs |-> RatSum(Column(md, "cogs")),
     marketing |-> RatSum(Column(md, "marketing")),
     team |-> RatSum(Column(md, "team")),
     overhead |-> RatSum(Column(md, "overhead"))]

\* _calculate_derived_metrics_enhanced taking the previous snapshot from the first period
_calculate_derived_metrics_enhanced_first(data) ==
    LET md == data.monthly_data
        n == Len(md)
        latest_data == md[n].value
        previous_data == md[1].value
    IN  IF n = 0 THEN data
        ELSE [data EXCEPT
                !.latest_metrics = Some(MakeMetrics(latest_data, LatestCash(data.balance_sheet))),
                !.previous_metrics = Some(MakeMetrics(previous_data, PreviousCash(data.balance_sheet))),
                !.ytd_metrics = Some(YtdMetrics(md))]

_calculate_derived_metrics_enhanced(data) ==
    LET md == data.monthly_data
        n == Len(md)
        latest_data == md[n].value
        previous_data == IF n > 1 THEN md[n - 1].value ELSE md[1].value
    IN  IF n = 0 THEN data
        ELSE [data EXCEPT
                !.latest_metrics = Some(MakeMetrics(latest_data, LatestCash(data.balance_sheet))),
                !.previous_metrics = Some(MakeMetrics(previous_data, PreviousCash(data.balance_sheet))),
                !.ytd_metrics = Some(YtdMetrics(md))]


\* ------------------------------------------------------------ report sections
\* A section is held as the values it prints, before number formatting.

ActionRow(category, status, target, actual, good) ==
    [category |-> category, status |-> status, class |-> StatusClass(status),
     target |-> target, actual |-> actual, good |-> good]

_generate_action_steps_table(metrics) ==
    << ActionRow("Income",
           generate_status_indicator(metrics.revenue, benchmarks.income_target, "income"),
           benchmarks.income_target, metrics.revenue,
           RatGT(metrics.revenue, benchmarks.income_target)),
       ActionRow("COGS/Products",
           generate_status_indicator(cogs_percentage(metrics), benchmarks.cogs_target, "expenses"),
           benchmarks.cogs_target, cogs_percentage(metrics),
           RatLE(cogs_percentage(metrics), benchmarks.cogs_target)),
       ActionRow("Marketing",
           generate_status_indicator(marketing_percentage(metrics), benchmarks.marketing_target, "expenses"),
           benchmarks.marketing_target, marketing_percentage(metrics),
           RatLE(marketing_percentage(metrics), benchmarks.marketing_target)),
       ActionRow("Team",
           generate_status_indicator(team_percentage(metrics), benchmarks.team_target, "expenses"),
           benchmarks.team_target, team_percentage(metrics),
           RatLE(team_percentage(metrics), benchmarks.team_target)),
       ActionRow("Overheads",
           generate_status_indicator(overhead_percentage(metrics), benchmarks.overhead_target, "expenses"),
           benchmarks.overhead_target, overhead_percentage(metrics),
           RatLE(overhead_percentage(metrics), benchmarks.overhead_target)),
       ActionRow("Net Profit",
           generate_status_indicator(profit_margin(metrics), benchmarks.profit_target, "income"),
           benchmarks.profit_target, profit_margin(metrics),
           RatGE(profit_margin(metrics), benchmarks.profit_target)),
       ActionRow("Cash on Hand",
           IF RatGT(metrics.cash_position, R(0)) THEN Positive ELSE Warning,
           benchmarks.cash_target, metrics.cash_position,
           RatGT(metrics.cash_position, R(0))) >>

Average2(x, y) == RatDiv(RatAdd(x, y), R(2))

_generate_monthly_metrics_table(data) ==
    IF ~IsSome(data.latest_metrics) \/ ~IsSome(data.previous_metrics) THEN Missing
    ELSE
        LET l == Get(data.latest_metrics)
            q == Get(data.previous_metrics)
            avg_revenue == Average2(l.revenue, q.revenue)
            avg_expenses == Average2(l.expenses, q.expenses)
            avg_profit == Average2(l.profit, q.profit)
        IN  Some(
            [revenue |-> l.revenue, avg_revenue |-> avg_revenue,
             revenue_variance |->
                IF RatGT(avg_revenue, R(0))
                THEN RatMul(RatDiv(RatSub(l.revenue, avg_revenue), avg_revenue), R(100))
                ELSE R(0),
             expenses |-> l.expenses, avg_expenses |-> avg_expenses,
             expense_variance |->
                IF RatGT(avg_expenses, R(0))
                THEN RatMul(RatDiv(RatSub(l.expenses, avg_expenses), avg_expenses), R(100))
                ELSE R(0),
             profit |-> l.profit, avg_profit |-> avg_profit,
             profit_variance |->
                IF avg_profit # R(0)
                THEN RatMul(RatDiv(RatSub(l.profit, avg_profit), RatAbs(avg_profit)), R(100))
                ELSE R(0)])

\* CashData falling back to the sample series instead of [0, 0]
CashData_sample(balance_sheet) ==
    IF IsSome(balance_sheet) THEN Get(balance_sheet) ELSE cash_positions

\* data['balance_sheet'].get('cash', [0, 0])
CashData(balance_sheet) == IF IsSome(balance_sheet) THEN Get(balance_sheet) ELSE <<0, 0>>

\* _generate_cash_movement_table with the arrow up on equal coverage too
_generate_cash_movement_table_ge(data) ==
    LET cash_data == CashData(data.balance_sheet)
        current_cash == IF cash_data # <<>> THEN R(cash_data[Len(cash_data)]) ELSE R(0)
        previous_cash == IF Len(cash_data) > 1 THEN R(cash_data[Len(cash_data) - 1]) ELSE R(0)
        monthly_expenses ==
            IF IsSome(data.latest_metrics) THEN Get(data.latest_metrics).expenses ELSE R(1)
        coverage_current ==
            IF RatGT(monthly_expenses, R(0)) THEN RatDiv(current_cash, monthly_expenses) ELSE R(0)
        coverage_previous ==
            IF RatGT(monthly_expenses, R(0)) THEN RatDiv(previous_cash, monthly_expenses) ELSE R(0)
    IN  [previous_cash |-> previous_cash, current_cash |-> current_cash,
         movement |-> RatSub(current_cash, previous_cash),
         coverage_previous |-> coverage_previous, coverage_current |-> coverage_current,
         arrow |-> IF RatGE(coverage_current, coverage_previous) THEN "up" ELSE "down",
         monthly_expenses |-> monthly_expenses]

_generate_cash_movement_table(data) ==
    LET cash_data == CashData(data.balance_sheet)
        current_cash == IF cash_data # <<>> THEN R(cash_data[Len(cash_data)]) ELSE R(0)
        previous_cash == IF Len(cash_data) > 1 THEN R(cash_data[Len(cash_data) - 1]) ELSE R(0)
        monthly_expenses ==
            IF IsSome(data.latest_metrics) THEN Get(data.latest_metrics).expenses ELSE R(1)
        coverage_current ==
            IF RatGT(monthly_expenses, R(0)) THEN RatDiv(current_cash, monthly_expenses) ELSE R(0)
        coverage_previous ==
            IF RatGT(monthly_expenses, R(0)) THEN RatDiv(previous_cash, monthly_expenses) ELSE R(0)
    IN  [previous_cash |-> previous_cash, current_cash |-> current_cash,
         movement |-> RatSub(current_cash, previous_cash),
         coverage_previous |-> coverage_previous, coverage_current |-> coverage_current,
         arrow |-> IF RatGT(coverage_current, coverage_previous) THEN "up" ELSE "down",
         monthly_expenses |-> monthly_expenses]

YtdRow(amount, total_revenue, target) ==
    LET pct == IF RatGT(total_revenue, R(0))
               THEN RatMul(RatDiv(amount, total_revenue), R(100)) ELSE R(0)
    IN  [amount |-> amount, pct |-> pct, target |-> target, variance |-> RatSub(pct, target)]

\* ytd_metrics = data.get('ytd_metrics', {}); every field read with .get(field, 0)
YtdField(ytd, f) == IF IsSome(ytd) THEN Get(ytd)[f] ELSE R(0)

_generate_ytd_overview_table(data) ==
    LET ytd == data.ytd_metrics
        total_revenue == YtdField(ytd, "revenue")
    IN  [total_revenue |-> total_revenue,
         cogs |-> YtdRow(YtdField(ytd, "cogs"), total_revenue, benchmarks.cogs_target),
         marketing |-> YtdRow(YtdField(ytd, "marketing"), total_revenue, benchmarks.marketing_target),
         team |-> YtdRow(YtdField(ytd, "team"), total_revenue, benchmarks.team_target),
         overhead |-> YtdRow(YtdField(ytd, "overhead"), total_revenue, benchmarks.overhead_target),
         profit |-> YtdRow(YtdField(ytd, "profit"), total_revenue, benchmarks.profit_target)]

\* the threshold tests that select the insight texts
_generate_key_insights(metrics, data) ==
    [latest_month |-> data.latest_month,
     revenue_strong |-> RatGT(metrics.revenue, benchmarks.income_target),
     costs_controlled |-> RatGT(profit_margin(metrics), R(15)),
     cash_adequate |-> RatGT(metrics.cash_position, R(100000)),
     cash_positive |-> RatGT(metrics.cash_position, R(0)),
     profit_positive |-> RatGT(metrics.profit, R(0))]

\* the threshold tests that select the action-plan texts
_generate_action_plan(metrics) ==
    [profit_positive |-> RatGT(metrics.profit, R(0)),
     cash_positive |-> RatGT(metrics.cash_position, R(0)),
     margin_over_20 |-> RatGT(profit_margin(metrics), R(20)),
     margin_over_15 |-> RatGT(profit_margin(metrics), R(15)),
     revenue_over_target |-> RatGT(metrics.revenue, benchmarks.income_target)]

\* the chart block: an image per non-empty link, a placeholder otherwise; no block
\* at all for an empty list of links
ChartBlock(chart_urls, i) ==
    IF Len(chart_urls) >= i /\ chart_urls[i] # ""
    THEN <<"img", chart_urls[i]>> ELSE <<"placeholder", "">>

ChartHtml(chart_urls) ==
    IF chart_urls = <<>> THEN <<>>
    ELSE <<ChartBlock(chart_urls, 1), ChartBlock(chart_urls, 2), ChartBlock(chart_urls, 3)>>

NoMetricsError == "No latest metrics available"

\* generate_financial_report_html without the latest-metrics guard
generate_financial_report_html_lenient(data, chart_urls) ==
    [raised |-> None,
     html |-> Some([company_name |-> data.company_name, charts |-> ChartHtml(chart_urls)])]

\* generate_financial_report_html: the exception it raises, or the document
generate_financial_report_html(data, chart_urls) ==
    IF ~IsSome(data.latest_metrics)
    THEN [raised |-> NoMetricsError, html |-> Missing]
    ELSE
        LET latest_metrics == Get(data.latest_metrics)
        IN  [raised |-> None,
             html |-> Some(
                [company_name |-> data.company_name,
                 latest_month |-> data.latest_month,
                 period |-> data.period,
                 cards |-> [revenue |-> latest_metrics.revenue,
                            expenses |-> latest_metrics.expenses,
                            profit |-> latest_metrics.profit,
                            profit_margin |-> profit_margin(latest_metrics)],
                 action_steps |-> _generate_action_steps_table(latest_metrics),
                 monthly_metrics |-> _generate_monthly_metrics_table(data),
                 cash_movement |-> _generate_cash_movement_table(data),
                 ytd_overview |-> _generate_ytd_overview_table(data),
                 insights |-> _generate_key_insights(latest_metrics, data),
                 action_plan |-> _generate_action_plan(latest_metrics),
                 charts |-> ChartHtml(chart_urls)])]

\* ------------------------------------------------------------ charts

\* the three chart configurations, in the order of chart_configs
ChartKinds == <<"bar", "doughnut", "line">>

\* the labels and series of the i-th chart configuration
ChartConfig(data, kind) ==
    LET months == LastN(data.months, 12)
        md == LastN(data.monthly_data, 12)
        latest_metrics == Get(data.latest_metrics)
    IN  CASE kind = "bar" ->
               [type |-> "bar", labels |-> months,
                series |-> << Column(md, "revenue"),
                              [i \in 1..Len(md) |-> Expenses(md[i].value)],
                              Column(md, "profit") >>]
          [] kind = "doughnut" ->
               [type |-> "doughnut", labels |-> <<"COGS", "Marketing", "Team", "Overheads">>,
                series |-> << << cogs_percentage(latest_metrics),
                                 marketing_percentage(latest_metrics),
                                 team_percentage(latest_metrics),
                                 overhead_percentage(latest_metrics) >> >>]
          [] kind = "line" ->
               [type |-> "line", labels |-> months,
                series |-> << IF IsSome(data.balance_sheet)
                              THEN [i \in 1..Len(Get(data.balance_sheet)) |->
                                        R(Get(data.balance_sheet)[i])]
                              ELSE [i \in 1..Len(months) |-> R(0)] >>]

\* What one submission to the charting service may come to: a body with a link;
\* an exception inside the try (a non-success status at raise_for_status, a timeout
\* or connection error at post, a body that is no JSON object); a JSON object
\* without "url".
ChartOutcomes == {"ok", "raises", "no_url"}

ChartLink(kind) ==
    CASE kind = "bar" -> "https://quickchart.io/chart/render/bar"
      [] kind = "doughnut" -> "https://quickchart.io/chart/render/doughnut"
      [] kind = "line" -> "https://quickchart.io/chart/render/line"

\* ChartSlot appending None for a failed submission
ChartSlot_none(kind, outcome) ==
    IF outcome = "ok" THEN ChartLink(kind)
    ELSE None

\* the entry one submission adds to chart_urls
ChartSlot(kind, outcome) ==
    IF outcome = "ok" THEN ChartLink(kind)
    ELSE ""

EmptyCharts == <<"", "", "">>

\* ------------------------------------------------------------ PDF export

\* What the submission to the PDF service may come to: a body with a link; a body
\* with neither link nor error; an exception at post, raise_for_status or json (a
\* non-success status, a timeout, an undecodable body); a body whose "error" is truthy.
PdfOutcomes == {"ok", "no_url", "raises", "error_field"}

PdfLink == "https://pdf.co/enhanced_financial_report.pdf"

\* convert_to_pdf without the check of the body's error field
convert_to_pdf_unchecked(outcome) ==
    CASE outcome = "ok" -> [raised |-> None, url |-> PdfLink]
      [] outcome = "no_url" -> [raised |-> None, url |-> None]
      [] outcome = "error_field" -> [raised |-> None, url |-> None]
      [] outcome = "raises" -> [raised |-> "RequestException", url |-> None]

\* convert_to_pdf: the exception it raises, or the link it returns
convert_to_pdf(outcome) ==
    CASE outcome = "ok" -> [raised |-> None, url |-> PdfLink]
      [] outcome = "no_url" -> [raised |-> None, url |-> None]
      [] outcome = "error_field" -> [raised |-> "PDF.co error", url |-> None]
      [] outcome = "raises" -> [raised |-> "RequestException", url |-> None]

\* ------------------------------------------------------------ state

VARIABLES
    caller,               \* who runs the pipeline: the /process endpoint or main()
    GENERATOR_AVAILABLE,  \* app.py: the generator module could be imported
    GEMINI_KEY,           \* app.py: the key is set (truthy)
    PDFCO_KEY,            \* app.py: the key is set (truthy)
    pc,                   \* position in the request / the pipeline
    request_files,        \* the parts of the request examined so far
    uploaded_files,       \* process_files: file_key -> saved path, in insertion order
    fs,                   \* the paths that exist on disk
    response,             \* what the caller's client gets: Missing until produced
    file_paths,           \* the pipeline's argument: role -> path, in insertion order
    file_log,             \* per processed entry of file_paths: what happened to it
    extracted_data,       \* extract_financial_data_smart: the dataset being built
    chart_urls,           \* create_professional_charts: the list being built
    requests_log,         \* every request sent to an external service, in order
    html_content,         \* the assembled document, Missing until assembled
    raised,               \* the exception in flight, None if none
    returned,             \* the tuple the pipeline returned, Missing if it has not
    arg,                  \* the arguments of a function examined on its own
    out,                  \* its result, Missing until it has been applied
    upload_folder,        \* the folder shared by the workers: <<path, content>> pairs
    reqs                  \* the /process requests served side by side, one record each

vars ==
    <<caller, GENERATOR_AVAILABLE, GEMINI_KEY, PDFCO_KEY, pc, request_files, uploaded_files,
      fs, response, file_paths, file_log, extracted_data, chart_urls, requests_log,
      html_content, raised, returned, arg, out, upload_folder, reqs>>

auxVars == <<arg, out, upload_folder, reqs>>
configVars == <<caller, GENERATOR_AVAILABLE, GEMINI_KEY, PDFCO_KEY>>
endpointVars == <<request_files, uploaded_files, fs, response>>
pipelineVars ==
    <<file_paths, file_log, extracted_data, chart_urls, requests_log, html_content,
      raised, returned>>

MainPathSet == {MainFilePaths[i][2] : i \in 1..Len(MainFilePaths)}

Init ==
    /\ caller \in {"endpoint", "main"}
    /\ \/ /\ caller = "endpoint"
          /\ GENERATOR_AVAILABLE \in BOOLEAN
          /\ GEMINI_KEY \in BOOLEAN
          /\ PDFCO_KEY \in BOOLEAN
          /\ fs = {}
          /\ pc = "uploads"
       \/ /\ caller = "main"
          /\ GENERATOR_AVAILABLE = TRUE
          /\ GEMINI_KEY = TRUE
          /\ PDFCO_KEY = TRUE
          /\ fs \in SUBSET MainPathSet
          /\ pc = "main"
    /\ request_files = <<>>
    /\ uploaded_files = <<>>
    /\ response = Missing
    /\ file_paths = <<>>
    /\ file_log = <<>>
    /\ extracted_data = NewExtractedData
    /\ chart_urls = <<>>
    /\ requests_log = <<>>
    /\ html_content = Missing
    /\ raised = None
    /\ returned = Missing
    /\ arg = Missing
    /\ out = Missing
    /\ upload_folder = {}
    /\ reqs = <<>>

\* ------------------------------------------------------------ app.py: /process

Response(code, success, kind, error) ==
    Some([code |-> code, success |-> success, kind |-> kind, error |-> error,
          has_html |-> FALSE, pdf_url |-> None, chart_urls |-> <<>>, charts_generated |-> 0])

SavedPaths(uploaded) == {uploaded[i][2] : i \in 1..Len(uploaded)}

\* for filepath in uploaded_files.values(): try os.remove(filepath) except: pass
RemoveUploads(disk, uploaded) == disk \ SavedPaths(uploaded)

\* One iteration of the loop over required_files: the checks of the part under
\* file_key, then the save.
ReceiveUpload(part, save_ok) ==
    /\ pc = "uploads"
    /\ LET file_key == required_files[Len(request_files) + 1]
           filepath == UploadPath(file_key, part)
           reject(kind) ==
               /\ response' = Response(400, FALSE, kind, kind)
               /\ pc' = "done"
               /\ UNCHANGED <<uploaded_files, fs, raised>>
       IN  /\ request_files' = Append(request_files, part)
           /\ IF part = Absent THEN reject("Missing file")
              ELSE IF part = "" THEN reject("No file selected")
              ELSE IF ~allowed_file(part) THEN reject("Invalid file type")
              ELSE IF ~save_ok
              THEN /\ raised' = "save failed"
                   /\ pc' = "raised"
                   /\ UNCHANGED <<uploaded_files, fs, response>>
              ELSE /\ fs' = fs \cup {filepath}
                   /\ uploaded_files' = Append(uploaded_files, <<file_key, filepath>>)
                   /\ pc' = IF Len(uploaded_files') = Len(required_files)
                            THEN "checks" ELSE "uploads"
                   /\ UNCHANGED <<response, raised>>
    /\ UNCHANGED <<auxVars, configVars, file_paths, file_log, extracted_data, chart_urls,
                   requests_log, html_content, returned>>

\* if not GENERATOR_AVAILABLE: clean up, answer in demo mode
DemoMode ==
    /\ pc = "checks"
    /\ ~GENERATOR_AVAILABLE
    /\ fs' = RemoveUploads(fs, uploaded_files)
    /\ response' = Response(200, TRUE, "demo", None)
    /\ pc' = "done"
    /\ UNCHANGED <<auxVars, configVars, request_files, uploaded_files, pipelineVars>>

\* MissingKeys answering 200 with success false instead of 500
MissingKeys_degraded ==
    /\ pc = "checks"
    /\ GENERATOR_AVAILABLE
    /\ ~GEMINI_KEY \/ ~PDFCO_KEY
    /\ fs' = RemoveUploads(fs, uploaded_files)
    /\ response' = Response(200, FALSE, "no_api_keys", "API keys not configured")
    /\ pc' = "done"
    /\ UNCHANGED <<auxVars, configVars, request_files, uploaded_files, pipelineVars>>

\* if not GEMINI_KEY or not PDFCO_KEY: clean up, answer 500
MissingKeys ==
    /\ pc = "checks"
    /\ GENERATOR_AVAILABLE
    /\ ~GEMINI_KEY \/ ~PDFCO_KEY
    /\ fs' = RemoveUploads(fs, uploaded_files)
    /\ response' = Response(500, FALSE, "no_api_keys", "API keys not configured")
    /\ pc' = "done"
    /\ UNCHANGED <<auxVars, configVars, request_files, uploaded_files, pipelineVars>>

UploadedPath(uploaded, file_key) ==
    (CHOOSE e \in Range(uploaded) : e[1] = file_key)[2]

\* generator.process_comprehensive_financial_report({...}) and the start of extraction
InvokePipeline ==
    /\ pc = "checks"
    /\ GENERATOR_AVAILABLE /\ GEMINI_KEY /\ PDFCO_KEY
    /\ file_paths' =
         << <<"balance_sheet", UploadedPath(uploaded_files, "balance_sheet")>>,
            <<"cash_flow", UploadedPath(uploaded_files, "cash_flow")>>,
            <<"profit_loss", UploadedPath(uploaded_files, "profit_loss")>> >>
    /\ extracted_data' = NewExtractedData
    /\ pc' = "extract"
    /\ UNCHANGED <<auxVars, configVars, endpointVars, file_log, chart_urls, requests_log,
                   html_content, raised, returned>>

CountNonEmpty(urls) == Cardinality({i \in 1..Len(urls) : urls[i] # ""})

\* the pipeline returned: clean up, answer 200 with the results
EndpointReturn ==
    /\ pc = "returned"
    /\ caller = "endpoint"
    /\ fs' = RemoveUploads(fs, uploaded_files)
    /\ response' =
         Some([code |-> 200, success |-> TRUE, kind |-> "report", error |-> None,
               has_html |-> TRUE, pdf_url |-> Get(returned).pdf_url,
               chart_urls |-> Get(returned).chart_urls,
               charts_generated |-> CountNonEmpty(Get(returned).chart_urls)])
    /\ pc' = "done"
    /\ UNCHANGED <<auxVars, configVars, request_files, uploaded_files, pipelineVars>>

\* except Exception: clean up files on error, answer 500
EndpointExcept ==
    /\ pc = "raised"
    /\ caller = "endpoint"
    /\ fs' = RemoveUploads(fs, uploaded_files)
    /\ response' = Response(500, FALSE, "processing_failed", raised)
    /\ pc' = "done"
    /\ UNCHANGED <<auxVars, configVars, request_files, uploaded_files, pipelineVars>>

\* ------------------------------------------------------------ main()

MainStart ==
    /\ pc = "main"
    /\ file_paths' = MainFilePaths
    /\ extracted_data' = NewExtractedData
    /\ pc' = "extract"
    /\ UNCHANGED <<auxVars, configVars, endpointVars, file_log, chart_urls, requests_log,
                   html_content, raised, returned>>

\* the pipeline returned: the document is written to the output file
MainReturn ==
    /\ pc = "returned"
    /\ caller = "main"
    /\ fs' = fs \cup {OutputFile}
    /\ response' =
         Some([code |-> 0, success |-> TRUE, kind |-> "main_completed", error |-> None,
               has_html |-> TRUE, pdf_url |-> Get(returned).pdf_url,
               chart_urls |-> Get(returned).chart_urls,
               charts_generated |-> CountNonEmpty(Get(returned).chart_urls)])
    /\ pc' = "done"
    /\ UNCHANGED <<auxVars, configVars, request_files, uploaded_files, pipelineVars>>

\* except Exception: the error is printed
MainExcept ==
    /\ pc = "raised"
    /\ caller = "main"
    /\ response' = Response(0, FALSE, "main_error", raised)
    /\ pc' = "done"
    /\ UNCHANGED <<auxVars, configVars, request_files, uploaded_files, fs, pipelineVars>>


\* ------------------------------------------------------------ the pipeline

\* One iteration of the loop over file_paths.items() in extract_financial_data_smart.
\* A path that is not on disk is skipped; one that is may fail to read.
ProcessFile(outcome) ==
    /\ pc = "extract"
    /\ Len(file_log) < Len(file_paths)
    /\ LET entry == file_paths[Len(file_log) + 1]
           exists == entry[2] \in fs
       IN  /\ exists \/ outcome = "raises"
           /\ extracted_data' = ProcessOneFile(extracted_data, entry[1], exists, outcome)
           /\ file_log' = Append(file_log,
                             [file_type |-> entry[1],
                              outcome |-> IF exists THEN outcome ELSE "missing"])
    /\ pc' = IF Len(file_log') = Len(file_paths) THEN "derive" ELSE "extract"
    /\ UNCHANGED <<auxVars, configVars, endpointVars, file_paths, chart_urls, requests_log,
                   html_content, raised, returned>>

\* Derive running while files are still waiting to be processed
Derive_early ==
    /\ pc \in {"extract", "derive"}
    /\ extracted_data' = _calculate_derived_metrics_enhanced(extracted_data)
    /\ pc' = "charts"
    /\ UNCHANGED <<auxVars, configVars, endpointVars, file_paths, file_log, chart_urls, requests_log,
                   html_content, raised, returned>>

\* self._calculate_derived_metrics_enhanced(extracted_data); return extracted_data
Derive ==
    /\ pc = "derive"
    /\ extracted_data' = _calculate_derived_metrics_enhanced(extracted_data)
    /\ pc' = "charts"
    /\ UNCHANGED <<auxVars, configVars, endpointVars, file_paths, file_log, chart_urls, requests_log,
                   html_content, raised, returned>>

\* StartCharts without the latest-metrics guard
StartCharts_always(data) == [finished |-> FALSE, urls |-> <<>>]

\* create_professional_charts up to the submissions: without latest metrics it
\* returns three empty placeholders at once
StartCharts(data) ==
    IF ~IsSome(data.latest_metrics)
    THEN [finished |-> TRUE, urls |-> EmptyCharts]
    ELSE [finished |-> FALSE, urls |-> <<>>]

BuildCharts ==
    /\ pc = "charts"
    /\ chart_urls' = StartCharts(extracted_data).urls
    /\ pc' = IF StartCharts(extracted_data).finished THEN "html" ELSE "submit"
    /\ UNCHANGED <<auxVars, configVars, endpointVars, file_paths, file_log, extracted_data,
                   requests_log, html_content, raised, returned>>

\* AfterSubmission without the per-chart try/except: a failure reaches the outer
\* handler, which returns three empty placeholders
AfterSubmission_abort(urls, kind, outcome) ==
    IF outcome = "ok" THEN Append(urls, ChartSlot(kind, outcome)) ELSE EmptyCharts

\* chart_urls after one pass of the submission loop
AfterSubmission(urls, kind, outcome) == Append(urls, ChartSlot(kind, outcome))

\* One pass of the submission loop: the request, then the append of the link or of "".
SubmitChart(outcome) ==
    /\ pc = "submit"
    /\ LET kind == ChartKinds[Len(chart_urls) + 1]
       IN  /\ requests_log' = Append(requests_log,
                                 [service |-> "chart", kind |-> kind, outcome |-> outcome])
           /\ chart_urls' = AfterSubmission(chart_urls, kind, outcome)
    /\ pc' = IF Len(chart_urls') >= Len(ChartKinds) THEN "html" ELSE "submit"
    /\ UNCHANGED <<auxVars, configVars, endpointVars, file_paths, file_log, extracted_data,
                   html_content, raised, returned>>

\* GenerateHtml going on to the PDF step whatever the assembly raised
GenerateHtml_unchecked ==
    /\ pc = "html"
    /\ LET r == generate_financial_report_html(extracted_data, chart_urls)
       IN  /\ html_content' = r.html
           /\ raised' = r.raised
           /\ pc' = "pdf"
    /\ UNCHANGED <<auxVars, configVars, endpointVars, file_paths, file_log, extracted_data,
                   chart_urls, requests_log, returned>>

\* html_content = self.generate_financial_report_html(extracted_data, chart_urls)
GenerateHtml ==
    /\ pc = "html"
    /\ LET r == generate_financial_report_html(extracted_data, chart_urls)
       IN  /\ html_content' = r.html
           /\ raised' = r.raised
           /\ pc' = IF r.raised = None THEN "pdf" ELSE "raised"
    /\ UNCHANGED <<auxVars, configVars, endpointVars, file_paths, file_log, extracted_data,
                   chart_urls, requests_log, returned>>

\* the value process_comprehensive_financial_report hands its caller after the PDF step
PipelineResult(html, pdf, urls) ==
    IF pdf.raised = None
    THEN Some([html_content |-> Get(html), pdf_url |-> pdf.url, chart_urls |-> urls])
    ELSE Missing

\* pdf_url = self.convert_to_pdf(html_content); return html_content, pdf_url, chart_urls
ConvertToPdf(outcome) ==
    /\ pc = "pdf"
    /\ LET r == convert_to_pdf(outcome)
       IN  /\ requests_log' = Append(requests_log,
                                 [service |-> "pdf", kind |-> "pdf", outcome |-> outcome])
           /\ raised' = r.raised
           /\ returned' = PipelineResult(html_content, r, chart_urls)
           /\ pc' = IF r.raised = None THEN "returned" ELSE "raised"
    /\ UNCHANGED <<auxVars, configVars, endpointVars, file_paths, file_log, extracted_data,
                   chart_urls, html_content>>

Next ==
    \/ \E part \in {Absent} \cup Filenames, save_ok \in BOOLEAN : ReceiveUpload(part, save_ok)
    \/ DemoMode
    \/ MissingKeys
    \/ InvokePipeline
    \/ EndpointReturn
    \/ EndpointExcept
    \/ MainStart
    \/ MainReturn
    \/ MainExcept
    \/ \E outcome \in ReadOutcomes : ProcessFile(outcome)
    \/ Derive
    \/ BuildCharts
    \/ \E outcome \in ChartOutcomes : SubmitChart(outcome)
    \/ GenerateHtml
    \/ \E outcome \in PdfOutcomes : ConvertToPdf(outcome)

Spec == Init /\ [][Next]_vars


\* ------------------------------------------------------------ functions on their own

\* the single request's variables at rest
AtRest ==
    /\ caller = "main"
    /\ GENERATOR_AVAILABLE = TRUE
    /\ GEMINI_KEY = TRUE
    /\ PDFCO_KEY = TRUE
    /\ pc = "idle"
    /\ request_files = <<>>
    /\ uploaded_files = <<>>
    /\ fs = {}
    /\ response = Missing
    /\ file_paths = <<>>
    /\ file_log = <<>>
    /\ extracted_data = NewExtractedData
    /\ chart_urls = <<>>
    /\ requests_log = <<>>
    /\ html_content = Missing
    /\ raised = None
    /\ returned = Missing

\* the service at rest, while one function is examined on its own
Idle ==
    /\ AtRest
    /\ upload_folder = {}
    /\ reqs = <<>>

serviceVars == <<configVars, pc, endpointVars, pipelineVars, upload_folder, reqs>>

\* generate_status_indicator over whole-number actuals and targets
MaxActual == 135
ClassifyActuals == (-2 .. MaxActual) \cup {230000}
ClassifyTargets == {-1, 0, 20, 100, 209475}
ClassifyCategories == {"income", "profit", "expenses", "other"}

InitClassify ==
    /\ Idle
    /\ arg \in {Some([actual |-> R(a), target |-> R(t), category |-> c]) :
                  a \in ClassifyActuals, t \in ClassifyTargets, c \in ClassifyCategories}
    /\ out = Missing

Classify ==
    /\ pc = "idle"
    /\ out = Missing
    /\ out' = Some(generate_status_indicator(Get(arg).actual, Get(arg).target, Get(arg).category))
    /\ UNCHANGED <<arg, serviceVars>>

NextClassify == Classify

SpecClassify == InitClassify /\ [][NextClassify]_vars

\* a second call with the same arguments, its result kept next to the first one's
Reclassify ==
    /\ pc = "idle"
    /\ Len(out) = 1
    /\ out' = Append(out,
                     generate_status_indicator(Get(arg).actual, Get(arg).target,
                                               Get(arg).category))
    /\ UNCHANGED <<arg, serviceVars>>

SpecReclassify == InitClassify /\ [][Classify \/ Reclassify]_vars

\* clean_numeric_value over None, floats, ints and texts: every text of up to MaxTextLen
\* characters over TextAlphabet, and the texts of NamedTexts
MaxTextLen == 3
TextAlphabet == {"5", "0", "-", ".", "(", ")", "$", ",", "%", " "}
NamedTexts ==
    {<<"i", "n", "f">>, <<"i", "n", "f", "i", "n", "i", "t", "y">>,
     <<"I", "n", "f", "i", "n", "i", "t", "y">>, <<"-", "i", "n", "f">>,
     <<"-", "n", "a", "n">>, <<"n", "a", "n">>, <<"N", "a", "N">>, <<"N", "/", "A">>,
     <<"#", "N", "/", "A">>, <<"n", "o", "n", "e">>, <<"a", "b", "c">>,
     <<"$", "1", ",", "2", "3", "4", ".", "5", "0">>, <<"(", "5", "0", "0", ")">>,
     <<"(", "-", "5", "0", "0", ")">>, <<"-", "-", "5">>, <<"+", "5">>,
     <<"1", "2", "%">>, <<" ", "7", " ">>}
Texts == UNION {[1..n -> TextAlphabet] : n \in 0..MaxTextLen} \cup NamedTexts
CellValues ==
    {NoneValue, FloatValue(NaN), FloatValue(PosInf), FloatValue(NegInf),
     FloatValue(Finite(Rat(-3, 2))), FloatValue(Finite(Rat(23, 2))), IntValue(0),
     IntValue(5), IntValue(-78000)}
      \cup {StrValue(t) : t \in Texts}

InitClean ==
    /\ Idle
    /\ arg \in {Some(v) : v \in CellValues}
    /\ out = Missing

Clean ==
    /\ pc = "idle"
    /\ out = Missing
    /\ out' = Some(clean_numeric_value(Get(arg)))
    /\ UNCHANGED <<arg, serviceVars>>

SpecClean == InitClean /\ [][Clean]_vars

\* the five percentage properties of a FinancialMetrics, over whole-number fields
MaxComponent == 1
ComponentValues == {-1} \cup (0 .. MaxComponent) \cup {23000}
RevenueValues == {-1, 0, 1, 3, 200000}

InitPercentages ==
    /\ Idle
    /\ arg \in {Some(MakeMetrics([revenue |-> R(rv), profit |-> R(p), cogs |-> R(c),
                                   marketing |-> R(mk), team |-> R(t), overhead |-> R(o)],
                                  R(0))) :
                  rv \in RevenueValues, p \in ComponentValues, c \in ComponentValues,
                  mk \in ComponentValues, t \in ComponentValues, o \in ComponentValues}
    /\ out = Missing

Percentages ==
    /\ pc = "idle"
    /\ out = Missing
    /\ out' = Some([profit_margin |-> profit_margin(Get(arg)),
                    cogs_percentage |-> cogs_percentage(Get(arg)),
                    marketing_percentage |-> marketing_percentage(Get(arg)),
                    team_percentage |-> team_percentage(Get(arg)),
                    overhead_percentage |-> overhead_percentage(Get(arg))])
    /\ UNCHANGED <<arg, serviceVars>>

SpecPercentages == InitPercentages /\ [][Percentages]_vars

\* _calculate_derived_metrics_enhanced over datasets of up to MaxPeriods periods, each one
\* of PeriodRecords, with the cash series absent or of up to MaxCash entries
MaxPeriods == 3
MaxCash == 3

PeriodRecord(r, c, m, t, o, p) ==
    [revenue |-> R(r), cogs |-> R(c), marketing |-> R(m), team |-> R(t), overhead |-> R(o),
     profit |-> R(p)]

\* whole-number periods; in the last two the profit is not revenue less costs
PeriodRecords ==
    {PeriodRecord(100, 10, 20, 30, 15, 25), PeriodRecord(200, 23, 31, 68, 47, 31),
     PeriodRecord(0, 1, 2, 3, 4, 7), PeriodRecord(50, 5, 0, 9, 0, -40)}

CashEntry(i) == (2 * i - 5) * 1000 + i

CashSeries == {Missing} \cup {Some([i \in 1..k |-> CashEntry(i)]) : k \in 0..MaxCash}

InitDerive ==
    /\ Idle
    /\ \E n \in 0..MaxPeriods :
          arg \in {Some([NewExtractedData EXCEPT
                           !.monthly_data =
                               [i \in 1..n |-> [key |-> MonthKey(i), value |-> recs[i]]],
                           !.balance_sheet = cash]) :
                     recs \in [1..n -> PeriodRecords], cash \in CashSeries}
    /\ out = Missing

DeriveAlone ==
    /\ pc = "idle"
    /\ out = Missing
    /\ out' = Some(_calculate_derived_metrics_enhanced(Get(arg)))
    /\ UNCHANGED <<arg, serviceVars>>

SpecDerive == InitDerive /\ [][DeriveAlone]_vars

\* the loop of extract_financial_data_smart over any file_paths of up to MaxFiles entries:
\* arg is the roles in the order of the dict, out the dataset being built and, per
\* processed entry, what happened to it
MaxFiles == 2
Roles ==
    {"profit_loss", "p&l", "Loss_Balance", "balance_sheet", "Balance_Cash", "cash_flow",
     "xlsx"}
FileOutcomes == {"missing"} \cup ReadOutcomes

\* the keys of a dict are distinct
RoleLists ==
    UNION {{l \in [1..n -> Roles] : \A i, j \in 1..n : l[i] = l[j] => i = j} :
              n \in 0..MaxFiles}

InitExtract ==
    /\ Idle
    /\ arg \in {Some(l) : l \in RoleLists}
    /\ out = Some([data |-> NewExtractedData, log |-> <<>>])

ExtractOne(outcome) ==
    /\ pc = "idle"
    /\ IsSome(out) /\ "log" \in DOMAIN Get(out)
    /\ Len(Get(out).log) < Len(Get(arg))
    /\ LET file_type == Get(arg)[Len(Get(out).log) + 1]
       IN  out' = Some([data |-> ProcessOneFile(Get(out).data, file_type,
                                                outcome # "missing", outcome),
                        log |-> Append(Get(out).log,
                                       [file_type |-> file_type, outcome |-> outcome])])
    /\ UNCHANGED <<arg, serviceVars>>

SpecExtract == InitExtract /\ [][\E outcome \in FileOutcomes : ExtractOne(outcome)]_vars

\* generate_financial_report_html applied to derived datasets

\* the periods of the derivation alone, one with no costs and one with costs below zero
ReportRecords ==
    PeriodRecords \cup {PeriodRecord(10, 0, 0, 0, 0, 10), PeriodRecord(5, -3, 1, 0, 0, 7)}

ReportCash == CashSeries \cup {Some(cash_positions)}

InitReport ==
    /\ Idle
    /\ \E n \in 0..MaxPeriods :
          arg \in {Some(_calculate_derived_metrics_enhanced(
                          [NewExtractedData EXCEPT
                             !.monthly_data =
                                 [i \in 1..n |-> [key |-> MonthKey(i), value |-> recs[i]]],
                             !.balance_sheet = cash])) :
                     recs \in [1..n -> ReportRecords], cash \in ReportCash}
    /\ out = Missing

ReportAlone ==
    /\ pc = "idle"
    /\ out = Missing
    /\ out' = Some(generate_financial_report_html(Get(arg), EmptyCharts))
    /\ UNCHANGED <<arg, serviceVars>>

SpecReport == InitReport /\ [][ReportAlone]_vars

\* ------------------------------------------------------------ requests side by side

\* gunicorn runs several sync workers on one machine: two /process requests are served
\* at once, each by its own worker with its own locals, over the one upload folder.
\* Every upload is valid, the generator is importable, the keys are set and the chart
\* and PDF services answer well, so that a request on its own succeeds or fails by its
\* workbooks alone.
Requests == {1, 2}
RequestFilenames == {"a.xlsx", "b.XLS"}

\* what the workbooks of a request hold, told by what reading one of them comes to
Contents == ReadOutcomes

FolderPaths(folder) == {e[1] : e \in folder}

\* file.save(filepath): the path now holds this request's workbook
SaveFile(folder, filepath, content) ==
    {e \in folder : e[1] # filepath} \cup {<<filepath, content>>}

ContentAt(folder, filepath) == (CHOOSE e \in folder : e[1] = filepath)[2]

\* the pipeline from the derivation on, and the response made of its result
Outcome(data) ==
    LET derived == _calculate_derived_metrics_enhanced(data)
        started == StartCharts(derived)
        urls == IF started.finished THEN started.urls
                ELSE [i \in 1..Len(ChartKinds) |-> ChartSlot(ChartKinds[i], "ok")]
        doc == generate_financial_report_html(derived, urls)
        pdf == convert_to_pdf("ok")
    IN  IF doc.raised # None
        THEN [code |-> 500, success |-> FALSE, error |-> doc.raised, html |-> Missing,
              pdf_url |-> None, chart_urls |-> <<>>]
        ELSE [code |-> 200, success |-> TRUE, error |-> None, html |-> doc.html,
              pdf_url |-> pdf.url, chart_urls |-> urls]

\* the response of a request that is served with no other request around
RunAlone(content) ==
    Outcome(ProcessOneFile(
                ProcessOneFile(
                    ProcessOneFile(NewExtractedData, required_files[1], TRUE, content),
                    required_files[2], TRUE, content),
                required_files[3], TRUE, content))

InitConcurrent ==
    /\ AtRest
    /\ arg = Missing
    /\ out = Missing
    /\ upload_folder = {}
    /\ reqs \in [Requests ->
                  {[filename |-> f, content |-> c, pc |-> "uploads", uploaded_files |-> <<>>,
                    file_log |-> <<>>, extracted_data |-> NewExtractedData,
                    response |-> Missing] : f \in RequestFilenames, c \in Contents}]

\* one iteration of the upload loop of request r (lines 72-97)
RequestUpload(r) ==
    /\ reqs[r].pc = "uploads"
    /\ LET file_key == required_files[Len(reqs[r].uploaded_files) + 1]
           filepath == UploadPath(file_key, reqs[r].filename)
           uploaded == Append(reqs[r].uploaded_files, <<file_key, filepath>>)
       IN  /\ upload_folder' = SaveFile(upload_folder, filepath, reqs[r].content)
           /\ reqs' = [reqs EXCEPT ![r].uploaded_files = uploaded,
                                   ![r].pc = IF Len(uploaded) = Len(required_files)
                                             THEN "extract" ELSE "uploads"]
    /\ UNCHANGED <<arg, out, configVars, pc, endpointVars, pipelineVars>>

\* one iteration of the extraction loop of request r over the paths it saved to:
\* whatever is at the path now is what gets read
RequestProcessFile(r) ==
    /\ reqs[r].pc = "extract"
    /\ LET entry == reqs[r].uploaded_files[Len(reqs[r].file_log) + 1]
           exists == entry[2] \in FolderPaths(upload_folder)
           outcome == IF exists THEN ContentAt(upload_folder, entry[2]) ELSE "missing"
           log == Append(reqs[r].file_log, [file_type |-> entry[1], outcome |-> outcome])
       IN  reqs' = [reqs EXCEPT
                      ![r].extracted_data =
                          ProcessOneFile(reqs[r].extracted_data, entry[1], exists, outcome),
                      ![r].file_log = log,
                      ![r].pc = IF Len(log) = Len(reqs[r].uploaded_files)
                                THEN "finish" ELSE "extract"]
    /\ UNCHANGED <<arg, out, upload_folder, configVars, pc, endpointVars, pipelineVars>>

\* the rest of the pipeline of request r, the removal of its uploads and its response
RequestFinish(r) ==
    /\ reqs[r].pc = "finish"
    /\ upload_folder' =
         {e \in upload_folder : e[1] \notin SavedPaths(reqs[r].uploaded_files)}
    /\ reqs' = [reqs EXCEPT ![r].response = Some(Outcome(reqs[r].extracted_data)),
                            ![r].pc = "done"]
    /\ UNCHANGED <<arg, out, configVars, pc, endpointVars, pipelineVars>>

NextConcurrent ==
    \/ \E r \in Requests : RequestUpload(r)
    \/ \E r \in Requests : RequestProcessFile(r)
    \/ \E r \in Requests : RequestFinish(r)

SpecConcurrent == InitConcurrent /\ [][NextConcurrent]_vars


\* ------------------------------------------------------------ properties

\* the pipeline was invoked and extraction has gone through every entry of file_paths
Extracted == file_paths # <<>> /\ Len(file_log) = Len(file_paths)

\* the pipeline was invoked and create_professional_charts has returned
ChartsReturned ==
    /\ file_paths # <<>>
    /\ pc \in {"html", "pdf", "returned", "raised", "done"}

\* the pipeline was invoked and generate_financial_report_html has returned or raised
PastAssembly ==
    /\ file_paths # <<>>
    /\ pc \in {"pdf", "returned", "raised", "done"}

BadFile(e) == e.outcome \in {"missing", "raises"}

BadEntries == {i \in 1..Len(file_log) : BadFile(file_log[i])}

LoggedAs(route, bad) ==
    \E i \in 1..Len(file_log) : Route(file_log[i].file_type) = route /\ BadFile(file_log[i]) = bad

Populated(data, route) ==
    CASE route = "pnl" -> data.monthly_data # <<>> /\ data.months = SampleMonths
      [] route = "balance" -> IsSome(data.balance_sheet)
      [] route = "cash" -> IsSome(data.cash_flow)

ChartRequests == SelectSeq(requests_log, LAMBDA e : e.service = "chart")

\* C1: when no period was extracted, the pipeline hands its caller no document:
\* HTML assembly raises "No latest metrics available", the PDF step is never
\* reached, and the caller ends with that failure.
C1_NoPeriodsNoDocument ==
    (Extracted /\ extracted_data.monthly_data = <<>>) =>
        /\ html_content = Missing
        /\ returned = Missing
        /\ pc \notin {"pdf", "returned"}
        /\ pc \in {"raised", "done"} => raised = NoMetricsError
        /\ pc = "done" =>
             /\ ~Get(response).success
             /\ ~Get(response).has_html
             /\ Get(response).error = NoMetricsError

C1_Witness ==
    /\ pc = "done"
    /\ Extracted
    /\ \A i \in 1..Len(file_log) : file_log[i].outcome = "missing"
    /\ extracted_data.monthly_data = <<>>
    /\ Get(response).error = NoMetricsError

\* C2: with the balance-sheet file missing or unreadable and the profit-and-loss
\* file processed, HTML assembly yields a document whose cash-movement table shows
\* 0 previous cash, 0 current cash and movement 0.
C2_DegradedCashTable ==
    (PastAssembly /\ LoggedAs("balance", TRUE) /\ LoggedAs("pnl", FALSE)) =>
        /\ IsSome(html_content)
        /\ raised # NoMetricsError
        /\ Get(html_content).cash_movement.previous_cash = R(0)
        /\ Get(html_content).cash_movement.current_cash = R(0)
        /\ Get(html_content).cash_movement.movement = R(0)

C2_Witness ==
    /\ pc = "returned"
    /\ LoggedAs("balance", TRUE)
    /\ LoggedAs("pnl", FALSE)
    /\ LoggedAs("cash", FALSE)
    /\ Get(returned).html_content.cash_movement.current_cash = R(0)

ExactlyOneBad == Extracted /\ Cardinality(BadEntries) = 1

BadRoute == Route(file_log[CHOOSE i \in BadEntries : TRUE].file_type)

OthersPopulated ==
    \A i \in 1..Len(file_log) :
        ~BadFile(file_log[i]) => Populated(extracted_data, Route(file_log[i].file_type))

\* C3 as stated: whichever single file is bad, the others are extracted and the
\* report is not aborted (HTML assembly yields a document).
C3_Original ==
    ExactlyOneBad =>
        /\ OthersPopulated
        /\ PastAssembly => IsSome(html_content)

\* C3 as amended: whichever single file is bad, extraction processes the others and
\* returns a dataset in which only the bad role's part is absent; HTML assembly
\* yields a document when the bad file is the balance sheet or the cash flow, and
\* raises "No latest metrics available" when it is the profit-and-loss file.
C3_SingleBadFile ==
    ExactlyOneBad =>
        /\ OthersPopulated
        /\ ~Populated(extracted_data, BadRoute)
        /\ pc \notin {"extract"}
        /\ PastAssembly => (IsSome(html_content) <=> BadRoute # "pnl")
        /\ (PastAssembly /\ BadRoute = "pnl") => raised = NoMetricsError

C3_Witness ==
    /\ ExactlyOneBad
    /\ BadRoute = "cash"
    /\ file_log[2].outcome = "raises"
    /\ pc = "returned"
    /\ IsSome(extracted_data.balance_sheet)

\* C4: when the PDF step fails after the document was assembled, the caller is told
\* of the failure and still gets the document.
C4_HtmlReturnableAfterPdfFailure ==
    (PastAssembly /\ IsSome(html_content) /\ raised # None) =>
        /\ pc = "raised" => returned # Missing
        /\ pc = "done" => (Get(response).error = raised /\ Get(response).has_html)

\* C5: once the endpoint has produced its response, no upload it saved is on disk.
C5_NoUploadRemains ==
    (caller = "endpoint" /\ IsSome(response)) => SavedPaths(uploaded_files) \cap fs = {}

\* C6: with latest metrics present, every submission so far has filled exactly its
\* own slot, with the chart's link when it succeeded and "" when it failed, and all
\* three submissions are made whatever the earlier ones came to.
C6_ChartFailuresIsolated ==
    (file_paths # <<>> /\ IsSome(extracted_data.latest_metrics)
        /\ pc \in {"submit", "html", "pdf", "returned", "raised", "done"}) =>
        /\ Len(chart_urls) = Len(ChartRequests)
        /\ \A i \in 1..Len(ChartRequests) :
             /\ ChartRequests[i].kind = ChartKinds[i]
             /\ (ChartRequests[i].outcome = "ok") => chart_urls[i] = ChartLink(ChartKinds[i])
             /\ (ChartRequests[i].outcome # "ok") => chart_urls[i] = ""
        /\ pc # "submit" => Len(ChartRequests) = Len(ChartKinds)

C6_Witness ==
    /\ pc = "html"
    /\ Len(ChartRequests) = 3
    /\ ChartRequests[1].outcome = "raises"
    /\ ChartRequests[2].outcome = "ok"
    /\ ChartRequests[3].outcome = "raises"
    /\ chart_urls = <<"", ChartLink("doughnut"), "">>

C8_EmptyPlaceholders ==
    (ChartsReturned /\ ~IsSome(extracted_data.latest_metrics)) =>
        /\ chart_urls = EmptyCharts
        /\ pc = "html" => raised = None

C8_Witness ==
    /\ pc = "html"
    /\ file_paths # <<>>
    /\ ~IsSome(extracted_data.latest_metrics)
    /\ chart_urls = EmptyCharts

TierRank(tier) ==
    CASE tier = Positive -> 0
      [] tier = Neutral -> 1
      [] tier = Caution -> 2
      [] tier = Warning -> 3

\* C9: for income and profit the tier is Positive iff actual/target >= 1.10, Neutral
\* iff 1.00 <= actual/target < 1.10, Caution iff 0.85 <= actual/target < 1.00 and
\* Warning below that; a target <= 0 counts as ratio 0; 230000 against 209475 is Neutral.
C9_MaximizeBands ==
    (IsSome(out) /\ Get(arg).category \in {"income", "profit"}) =>
        LET a == Get(arg).actual[1]
            t == Get(arg).target[1]
            tier == Get(out)
        IN  /\ t > 0 =>
                /\ tier = Positive <=> 10 * a >= 11 * t
                /\ tier = Neutral <=> (a >= t /\ 10 * a < 11 * t)
                /\ tier = Caution <=> (20 * a >= 17 * t /\ a < t)
                /\ tier = Warning <=> 20 * a < 17 * t
            /\ t <= 0 => tier = Warning
            /\ (a = 230000 /\ t = 209475) => tier = Neutral

C9_Witness ==
    /\ IsSome(out)
    /\ Get(arg) = [actual |-> R(110), target |-> R(100), category |-> "income"]
    /\ Get(out) = Positive

\* C10: for the other categories the tier is Positive iff actual/target <= 0.98,
\* Neutral iff 0.98 < actual/target <= 1.05, Caution iff 1.05 < actual/target <= 1.30
\* and Warning above that, and a larger ratio never gives a better tier.
C10_MinimizeBands ==
    (IsSome(out) /\ Get(arg).category \notin {"income", "profit"}) =>
        LET a == Get(arg).actual[1]
            t == Get(arg).target[1]
            c == Get(arg).category
            tier == Get(out)
        IN  /\ t > 0 =>
                /\ tier = Positive <=> 50 * a <= 49 * t
                /\ tier = Neutral <=> (50 * a > 49 * t /\ 20 * a <= 21 * t)
                /\ tier = Caution <=> (20 * a > 21 * t /\ 10 * a <= 13 * t)
                /\ tier = Warning <=> 10 * a > 13 * t
                /\ \A a2 \in (-2 .. MaxActual), t2 \in {20, 100} :
                     a2 * t >= a * t2 =>
                        TierRank(generate_status_indicator(R(a2), R(t2), c)) >= TierRank(tier)
            /\ t <= 0 => tier = Positive

C10_Witness ==
    /\ IsSome(out)
    /\ Get(arg) = [actual |-> R(130), target |-> R(100), category |-> "expenses"]
    /\ Get(out) = Caution

PdfRequests == SelectSeq(requests_log, LAMBDA e : e.service = "pdf")

\* C12: convert_to_pdf sends the document to the conversion service once and never again;
\* when the service answers with a non-success status, times out or returns a body with a
\* truthy error field, the call raises and the pipeline's caller gets the failure; only in the
\* remaining cases does the pipeline return, with the link of the response's body.
C12_OneConversionRequest ==
    /\ Len(PdfRequests) <= 1
    /\ IsSome(returned) => Len(PdfRequests) = 1
    /\ Len(PdfRequests) = 1 =>
          LET o == PdfRequests[1].outcome
          IN  /\ o \in {"raises", "error_field"} =>
                    /\ raised # None
                    /\ returned = Missing
                    /\ pc \in {"raised", "done"}
                    /\ pc = "done" =>
                          /\ ~Get(response).success
                          /\ Get(response).error = raised
                          /\ ~Get(response).has_html
              /\ o \in {"ok", "no_url"} =>
                    /\ raised = None
                    /\ IsSome(returned)
                    /\ Get(returned).pdf_url = (IF o = "ok" THEN PdfLink ELSE None)

C12_Witness ==
    /\ Len(PdfRequests) = 1
    /\ PdfRequests[1].outcome = "error_field"
    /\ pc = "done"
    /\ caller = "endpoint"

\* the /process request has been answered
Answered == caller = "endpoint" /\ IsSome(response)

\* the last part examined was missing, had an empty filename or a disallowed extension
LastPartRejected ==
    /\ request_files # <<>>
    /\ LET part == request_files[Len(request_files)]
       IN  part = Absent \/ part = "" \/ ~allowed_file(part)

AllSaved == Len(uploaded_files) = Len(required_files)

\* C13 as stated: 400 whenever an upload is missing, unnamed or of a disallowed type; 500 on
\* missing credentials or an exception; a 200 response with success false is the one of the
\* 'credentials not configured' path, and every other 200 response carries a generated report.
C13_Original ==
    Answered =>
        LET r == Get(response)
        IN  /\ LastPartRejected => r.code = 400
            /\ (AllSaved /\ (~GEMINI_KEY \/ ~PDFCO_KEY)) => r.code = 500
            /\ raised # None => r.code = 500
            /\ (r.code = 200 /\ ~r.success) => r.kind = "no_api_keys"
            /\ (r.code = 200 /\ r.kind # "no_api_keys") => (r.has_html /\ IsSome(returned))

\* C13, amended: 400 exactly when the upload examined last fails validation; 500 exactly when
\* something raised or, with the generator importable, a credential is missing; every 200
\* response has success true and is either the demo-mode answer given when the generator
\* could not be imported (no report, credentials not looked at) or carries a generated report.
C13_ResponseCodes ==
    Answered =>
        LET r == Get(response)
        IN  /\ r.code \in {200, 400, 500}
            /\ r.code = 400 <=> LastPartRejected
            /\ r.code = 500 <=>
                  \/ raised # None
                  \/ AllSaved /\ GENERATOR_AVAILABLE /\ (~GEMINI_KEY \/ ~PDFCO_KEY)
            /\ r.code = 200 =>
                  /\ r.success
                  /\ AllSaved
                  /\ \/ /\ ~GENERATOR_AVAILABLE
                        /\ r.kind = "demo"
                        /\ ~r.has_html
                        /\ returned = Missing
                     \/ /\ GENERATOR_AVAILABLE /\ GEMINI_KEY /\ PDFCO_KEY
                        /\ r.kind = "report"
                        /\ r.has_html
                        /\ IsSome(returned)
                        /\ IsSome(html_content)

C13_Witness ==
    /\ Answered
    /\ Get(response).code = 200
    /\ ~GENERATOR_AVAILABLE
    /\ ~GEMINI_KEY

\* C14: two /process requests served at once do not affect one another: whatever the
\* interleaving of their steps, also when both save to and delete from the same path, the
\* response of each is the one it gets when it is served alone.
C14_RequestsIsolated ==
    \A r \in DOMAIN reqs :
        reqs[r].pc = "done" => Get(reqs[r].response) = RunAlone(reqs[r].content)

\* C15: clean_numeric_value returns a finite float for every input, an infinity passed as a
\* number and the texts 'inf', 'infinity' and '-nan' included: never an infinity, never NaN.
C15_AlwaysFinite ==
    IsSome(out) => (Get(out).raised = None /\ Get(out).value.cls = "finite")

\* a value that is null, blank or a NaN marker, or a text that float() cannot parse after
\* cleaning
Unusable(value) ==
    \/ IsBlankValue(value)
    \/ /\ value.type = "str"
       /\ \/ Strip(value.text) = <<>>
          \/ Lower(Strip(value.text)) \in BlankMarkers
          \/ ~ParseFloat(Cleaned(Strip(value.text))).ok

\* C16: for every null, blank or NaN-marker value and every text that cannot be parsed as a
\* number after cleaning, clean_numeric_value returns 0.0 and does not raise; '', None, 'N/A'
\* and the texts 'abc', '5-', '-', '$' and '.' are such values.
C16_UnusableIsZero ==
    /\ IsSome(out) /\ Unusable(Get(arg)) => Get(out) = [raised |-> None, value |-> Zero]
    /\ \A v \in {NoneValue, FloatValue(NaN), StrValue(<<>>), StrValue(<<" ">>),
                  StrValue(<<"N", "/", "A">>), StrValue(<<"n", "a", "n">>),
                  StrValue(<<"a", "b", "c">>), StrValue(<<"5", "-">>), StrValue(<<"-">>),
                  StrValue(<<"$">>), StrValue(<<".">>)} :
          (IsSome(out) /\ Get(arg) = v) => Get(out) = [raised |-> None, value |-> Zero]

C16_Witness ==
    /\ IsSome(out)
    /\ Get(arg) = StrValue(<<"5", "-">>)
    /\ Unusable(Get(arg))

\* the percentage and the field of the metrics it is taken of
PercentageFields ==
    {<<"profit_margin", "profit">>, <<"cogs_percentage", "cogs">>,
     <<"marketing_percentage", "marketing">>, <<"team_percentage", "team">>,
     <<"overhead_percentage", "overheads">>}

\* C17: each of the five percentages of a FinancialMetrics is 0.0 when revenue is zero, and
\* when revenue is positive it is its component divided by revenue, times 100; revenue 200000
\* with cogs 23000 gives 11.5.
C17_Percentages ==
    IsSome(out) =>
        LET metrics == Get(arg)
            rv == metrics.revenue[1]
        IN  /\ \A pf \in PercentageFields :
                  LET pct == Get(out)[pf[1]]
                      part == metrics[pf[2]][1]
                  IN  /\ rv = 0 => pct = <<0, 1>>
                      /\ rv > 0 => pct[1] * rv = part * 100 * pct[2]
            /\ (rv = 200000 /\ metrics.cogs[1] = 23000) =>
                  Get(out).cogs_percentage = <<23, 2>>

C17_Witness ==
    /\ IsSome(out)
    /\ "profit_margin" \in DOMAIN Get(out)
    /\ Get(arg).revenue = R(0)
    /\ Get(arg).cogs = R(23000)

\* the derivation has been applied to a dataset with at least one period
Derived == IsSome(out) /\ "monthly_data" \in DOMAIN Get(arg) /\ Get(arg).monthly_data # <<>>

\* the snapshot carries the figures of the period
BuiltFrom(metrics, period) ==
    /\ metrics.revenue = period.revenue
    /\ metrics.profit = period.profit
    /\ metrics.cogs = period.cogs
    /\ metrics.marketing = period.marketing
    /\ metrics.team = period.team
    /\ metrics.overheads = period.overhead
    /\ metrics.expenses =
         RatAdd(period.cogs, RatAdd(period.marketing, RatAdd(period.team, period.overhead)))

\* C18: the derivation builds the latest snapshot from the last period and the previous one
\* from the second-to-last period, in the order the periods were stored; with one period both
\* are built from it; with no period the dataset is returned as it was.
C18_LatestAndPrevious ==
    /\ (IsSome(out) /\ "monthly_data" \in DOMAIN Get(arg) /\ Get(arg).monthly_data = <<>>) =>
          Get(out) = Get(arg)
    /\ Derived =>
          LET md == Get(arg).monthly_data
              n == Len(md)
          IN  /\ IsSome(Get(out).latest_metrics)
              /\ IsSome(Get(out).previous_metrics)
              /\ IsSome(Get(out).ytd_metrics)
              /\ BuiltFrom(Get(Get(out).latest_metrics), md[n].value)
              /\ n >= 2 => BuiltFrom(Get(Get(out).previous_metrics), md[n - 1].value)
              /\ n = 1 => BuiltFrom(Get(Get(out).previous_metrics), md[1].value)
              /\ Get(out).monthly_data = md

C18_Witness ==
    /\ Derived
    /\ Len(Get(arg).monthly_data) = 1
    /\ IsSome(Get(out).previous_metrics)

\* C19: whatever the cash series (absent, empty, one entry, two or more), the latest
\* snapshot's cash position is its last entry, or 0 when it is absent or empty, and the
\* previous snapshot's is its second-to-last entry, or 0 when it has fewer than two entries.
C19_CashPositions ==
    Derived =>
        LET bs == Get(arg).balance_sheet
            k == IF IsSome(bs) THEN Len(Get(bs)) ELSE 0
            latest == Get(Get(out).latest_metrics).cash_position
            previous == Get(Get(out).previous_metrics).cash_position
        IN  /\ latest = (IF k >= 1 THEN <<Get(bs)[k], 1>> ELSE <<0, 1>>)
            /\ previous = (IF k >= 2 THEN <<Get(bs)[k - 1], 1>> ELSE <<0, 1>>)

C19_Witness ==
    /\ Derived
    /\ IsSome(Get(arg).balance_sheet)
    /\ Len(Get(Get(arg).balance_sheet)) = 1

\* the sum of one whole-number field over the periods
RECURSIVE FieldTotal(_, _)
FieldTotal(md, f) ==
    IF md = <<>> THEN 0 ELSE md[1].value[f][1] + FieldTotal(Tail(md), f)

\* C20: after the derivation over one or more periods, the year-to-date revenue, cogs,
\* marketing, team, overhead and profit are each the sum of that field over all periods, and
\* the year-to-date expenses are the sum over all periods of the four cost components.
C20_YearToDate ==
    Derived =>
        LET md == Get(arg).monthly_data
            ytd == Get(Get(out).ytd_metrics)
        IN  /\ \A f \in {"revenue", "cogs", "marketing", "team", "overhead", "profit"} :
                  ytd[f] = <<FieldTotal(md, f), 1>>
            /\ ytd.expenses =
                  <<FieldTotal(md, "cogs") + FieldTotal(md, "marketing")
                      + FieldTotal(md, "team") + FieldTotal(md, "overhead"), 1>>

C20_Witness ==
    /\ Derived
    /\ Len(Get(arg).monthly_data) >= 2
    /\ Get(Get(out).ytd_metrics).profit # RatSub(Get(Get(out).ytd_metrics).revenue,
                                                 Get(Get(out).ytd_metrics).expenses)

\* the month's stored profit is its revenue less the sum of its four costs, as the program
\* computes both
ProfitMatches(revenue) ==
    LET rec == DoubleMonthRecord(revenue)
    IN  rec.profit = FloatSub(rec.revenue, DoubleExpenses(rec))

\* C21: in every dataset extraction produces, the profit of each monthly record is its
\* revenue less the sum of cogs, marketing, team and overhead, and the profit of the latest
\* and of the previous snapshot is its revenue less its expenses.
C21_ProfitFromComponents ==
    /\ \A i \in 1..Len(extracted_data.monthly_data) :
          ProfitMatches(extracted_data.monthly_data[i].value.revenue[1])
    /\ IsSome(extracted_data.latest_metrics) =>
          ProfitMatches(Get(extracted_data.latest_metrics).revenue[1])
    /\ IsSome(extracted_data.previous_metrics) =>
          ProfitMatches(Get(extracted_data.previous_metrics).revenue[1])

\* the same identity on the exact values, rounding left out
ProfitIdentityExact ==
    /\ \A i \in 1..Len(extracted_data.monthly_data) :
          LET rec == extracted_data.monthly_data[i].value
          IN  rec.profit = RatSub(rec.revenue, Expenses(rec))
    /\ IsSome(extracted_data.latest_metrics) =>
          LET m == Get(extracted_data.latest_metrics)
          IN  m.profit = RatSub(m.revenue, m.expenses)

\* the entries of the log that ran the P&L extractor
PnlRuns(log) ==
    {i \in 1..Len(log) : Route(log[i].file_type) = "pnl"
                            /\ log[i].outcome \in {"named", "unnamed"}}

MarkedNegative(value) ==
    /\ value.type = "str"
    /\ LET str_val == Strip(value.text)
       IN  \/ Len(str_val) >= 2 /\ str_val[1] = "(" /\ str_val[Len(str_val)] = ")"
           \/ RemoveSymbols(str_val) # <<>> /\ RemoveSymbols(str_val)[1] = "-"

\* C23: a text in parentheses gives a negative result, a text with a leading minus sign gives
\* a negative result, and so does a text with both: the two never cancel to a positive value.
C23_NegativeNeverCancels ==
    (IsSome(out) /\ "text" \in DOMAIN Get(arg) /\ MarkedNegative(Get(arg))) =>
        LET result == Get(out).value
        IN  /\ result.cls # "inf"
            /\ result.cls = "finite" => RatLE(result.val, R(0))

\* the extractor each role of Roles goes to by the keywords in its name
RoutedTo(file_type) ==
    CASE file_type \in {"profit_loss", "p&l", "Loss_Balance"} -> "pnl"
      [] file_type \in {"balance_sheet", "Balance_Cash"} -> "balance"
      [] file_type = "cash_flow" -> "cash"
      [] OTHER -> "none"

\* the parts of the dataset a run of the extractor may change, the company name aside
PartsOf(route) ==
    CASE route = "pnl" -> {"months", "latest_month", "previous_month", "monthly_data"}
      [] route = "balance" -> {"balance_sheet"}
      [] route = "cash" -> {"cash_flow"}
      [] OTHER -> {}

\* C24: a workbook goes to at most one extractor, chosen by the keywords in its role name
\* (profit, loss or p&l: the P&L extractor; else balance: the balance-sheet extractor; else
\* cash: the cash-flow extractor), and processing it changes only that extractor's part of
\* the dataset, the company name aside; a file that is missing or fails to read changes
\* nothing.
C24_RoutingFrame ==
    [][(IsSome(out) /\ "log" \in DOMAIN Get(out) /\ Len(Get(out').log) > Len(Get(out).log)) =>
          LET before == Get(out).data
              after == Get(out').data
              entry == Get(out').log[Len(Get(out').log)]
              read == entry.outcome \in {"named", "unnamed"}
              route == RoutedTo(entry.file_type)
          IN  /\ ~read => after = before
              /\ read =>
                    /\ \A f \in DOMAIN before :
                          (f \notin PartsOf(route) \cup {"company_name"}) => after[f] = before[f]
                    /\ entry.outcome = "unnamed" => after.company_name = before.company_name
                    /\ route = "pnl" => /\ after.months = SampleMonths
                                       /\ Len(after.monthly_data) = Len(SampleMonths)
                    /\ route = "balance" => after.balance_sheet = Some(cash_positions)
                    /\ route = "cash" => after.cash_flow = Some(SampleAccounts)
      ]_vars

C24_Witness ==
    /\ IsSome(out) /\ "log" \in DOMAIN Get(out)
    /\ \E i \in 1..Len(Get(out).log) :
          /\ Get(out).log[i].file_type = "Balance_Cash"
          /\ Get(out).log[i].outcome = "unnamed"
    /\ IsSome(Get(out).data.balance_sheet)
    /\ ~IsSome(Get(out).data.cash_flow)

Assembled == IsSome(out) /\ "html" \in DOMAIN Get(out) /\ IsSome(Get(out).html)

\* the value, the benchmark and the direction of each tracked category, in row order
TrackedCategories(metrics) ==
    << [category |-> "Income", actual |-> metrics.revenue,
        target |-> benchmarks.income_target, direction |-> "income"],
       [category |-> "COGS/Products", actual |-> cogs_percentage(metrics),
        target |-> benchmarks.cogs_target, direction |-> "expenses"],
       [category |-> "Marketing", actual |-> marketing_percentage(metrics),
        target |-> benchmarks.marketing_target, direction |-> "expenses"],
       [category |-> "Team", actual |-> team_percentage(metrics),
        target |-> benchmarks.team_target, direction |-> "expenses"],
       [category |-> "Overheads", actual |-> overhead_percentage(metrics),
        target |-> benchmarks.overhead_target, direction |-> "expenses"],
       [category |-> "Net Profit", actual |-> profit_margin(metrics),
        target |-> benchmarks.profit_target, direction |-> "income"],
       [category |-> "Cash on Hand", actual |-> metrics.cash_position,
        target |-> benchmarks.cash_target, direction |-> "income"] >>

ClassifiedRows ==
    Assembled =>
        LET rows == Get(Get(out).html).action_steps
            tracked == TrackedCategories(Get(Get(arg).latest_metrics))
        IN  /\ Len(rows) = 7
            /\ \A i \in 1..Len(rows) :
                  /\ rows[i].category = tracked[i].category
                  /\ rows[i].actual = tracked[i].actual
                  /\ rows[i].target = tracked[i].target
                  /\ i < 7 => rows[i].status =
                        generate_status_indicator(tracked[i].actual, tracked[i].target,
                                                  tracked[i].direction)

\* C27: in the monthly metrics table the 'YTD Avg' of revenue, expenses and profit is the
\* year-to-date aggregate divided by the number of periods, and the variance is
\* (latest - YTD average) / YTD average * 100, or 0 when the average cannot be divided by.
C27_YtdAverage ==
    (IsSome(html_content) /\ IsSome(Get(html_content).monthly_metrics)) =>
        LET t == Get(Get(html_content).monthly_metrics)
            ytd == Get(extracted_data.ytd_metrics)
            latest == Get(extracted_data.latest_metrics)
            n == R(Len(extracted_data.monthly_data))
            variance(actual, avg, usable) ==
                IF usable THEN RatMul(RatDiv(RatSub(actual, avg), RatAbs(avg)), R(100))
                ELSE R(0)
            ytd_revenue == RatDiv(ytd.revenue, n)
            ytd_expenses == RatDiv(ytd.expenses, n)
            ytd_profit == RatDiv(ytd.profit, n)
        IN  /\ t.avg_revenue = ytd_revenue
            /\ t.avg_expenses = ytd_expenses
            /\ t.avg_profit = ytd_profit
            /\ t.revenue_variance =
                  variance(latest.revenue, ytd_revenue, RatGT(ytd_revenue, R(0)))
            /\ t.expense_variance =
                  variance(latest.expenses, ytd_expenses, RatGT(ytd_expenses, R(0)))
            /\ t.profit_variance =
                  variance(latest.profit, ytd_profit, ytd_profit # R(0))

ExtractedNoMetrics ==
    /\ Len(file_paths) > 0
    /\ Len(file_log) = Len(file_paths)
    /\ pc # "derive"
    /\ ~IsSome(extracted_data.latest_metrics)

\* C29: when extraction yields no latest metrics the pipeline sends nothing to an external
\* service: no chart submission and no PDF conversion request, neither before nor after
\* the 'no metrics' failure is raised, and that failure is the one that ends the run.
C29_NoMetricsNoRequests ==
    /\ ExtractedNoMetrics =>
          /\ requests_log = <<>>
          /\ pc \in {"charts", "html", "raised", "done"}
          /\ html_content = Missing
          /\ returned = Missing
          /\ pc \in {"raised", "done"} => raised = NoMetricsError
    /\ raised = NoMetricsError => requests_log = <<>>

C29_Witness ==
    /\ ExtractedNoMetrics
    /\ pc = "raised"
    /\ raised = NoMetricsError
    /\ requests_log = <<>>
    /\ chart_urls = EmptyCharts

\* the names of Filenames that end in .xlsx or .xls, in any case
AcceptedNames == {"a.xlsx", "b.XLS"}

\* the pipeline has been invoked for the request
Invoked == file_paths # <<>> \/ file_log # <<>> \/ requests_log # <<>> \/ returned # Missing

\* C30: /process invokes the report pipeline only after the three required uploads,
\* examined in the order balance_sheet, cash_flow, profit_loss, were each present, named,
\* of an allowed extension (xlsx or xls in any case) and saved; the first upload that
\* fails a check ends the request with a 400 rejection, later uploads are not examined
\* and the pipeline is never invoked for that request.
C30_PipelineAfterUploads ==
    caller = "endpoint" =>
        /\ Invoked =>
              /\ Len(request_files) = Len(required_files)
              /\ \A i \in 1..Len(request_files) : request_files[i] \in AcceptedNames
              /\ uploaded_files =
                    [i \in 1..Len(required_files) |->
                        <<required_files[i], <<required_files[i], request_files[i]>> >>]
              /\ file_paths = uploaded_files
              /\ GENERATOR_AVAILABLE /\ GEMINI_KEY /\ PDFCO_KEY
        /\ pc \in {"extract", "derive", "charts", "submit", "html", "pdf"} =>
              \A i \in 1..Len(uploaded_files) : uploaded_files[i][2] \in fs
        /\ \A i \in 1..Len(request_files) :
              request_files[i] \notin AcceptedNames =>
                  /\ i = Len(request_files)
                  /\ Len(uploaded_files) = i - 1
                  /\ pc = "done"
                  /\ Get(response).code = 400
                  /\ ~Get(response).success
                  /\ ~Invoked

C30_Witness ==
    /\ caller = "endpoint"
    /\ pc = "extract"
    /\ request_files = <<"b.XLS", "a.xlsx", "b.XLS">>
    /\ file_paths # <<>>

\* a request turned away at its second upload
C30_Rejected ==
    /\ caller = "endpoint"
    /\ pc = "done"
    /\ request_files = <<"a.xlsx", "xlsx">>
    /\ Get(response).code = 400

====
